---- MODULE Spec2Model ----
(***************************************************************************)
(* UniNest: the Firestore security rules (firestore.rules) evaluated       *)
(* against document writes.  The database is a set of collections, each a  *)
(* map from document id to a resource (exists, data); a write request      *)
(* carries the requester's identity, the request time and the proposed     *)
(* document, and the rule set allows or denies it.                         *)
(*                                                                         *)
(* Field values are tagged <<type, value>> so that the rule language's     *)
(* type tests (`is string`, `is number`, ...) are decided by the value.    *)
(***************************************************************************)
EXTENDS Integers, Sequences, FiniteSets, TLC

VARIABLES
    users,             \* /users/{userId}
    properties,        \* /properties/{propertyId}
    bookingInterests,  \* /bookingInterests/{interestId}
    enrollments,       \* /enrollments/{enrollmentId}
    now,               \* server clock: request.time of the next request
    userOrigin,        \* history: role, uid, email a user document was created with
    propertyOrigin,    \* history: landlordId, createdAt a property was created with
    last,              \* history: the last write the rule set allowed
    reviews,           \* /reviews/{reviewId}
    reviewOrigin,      \* history: the studentId a review was created with
    calls,             \* the data-access calls in flight, one per browser session
    storage,           \* storage: profilePictures/{userId}/...
    propertyImages     \* storage: the objects under propertyImages/, by full path

\* The state outside the four collections of the booking flow
others == <<reviews, reviewOrigin, calls, storage, propertyImages>>

vars == <<users, properties, bookingInterests, enrollments, now,
          userOrigin, propertyOrigin, last, others>>

-----------------------------------------------------------------------------
(* Bounds *)

MaxTime == 1      \* the server clock runs over 0..MaxTime
MaxCount == 2     \* viewCount + interestedCount + enrolledStudentsCount of a stored property

Uids == {"u1", "u2"}          \* accounts of the auth service
Anon == "anon"                \* request.auth == null
Requesters == Uids \cup {Anon}
PropertyIds == {"p1"}
InterestIds == {"i1"}
EnrollmentIds == {"e1", "e2"}
ReviewIds == {"r1", "r2"}
Sessions == {"s1", "s2"}      \* browser sessions running the client code
Times == 0..MaxTime

-----------------------------------------------------------------------------
(* Values of the rule language *)

Str(s) == <<"string", s>>
Num(n) == <<"number", n>>
Bool(b) == <<"bool", b>>
Ts(t) == <<"timestamp", t>>
List(l) == <<"list", l>>
Undef == <<"undefined", 0>>   \* reading a key a map does not have: an evaluation error
Del == <<"delete", 0>>        \* deleteField() sentinel in an update patch

IsString(v) == v[1] = "string"
IsNumber(v) == v[1] = "number"
IsList(v) == v[1] = "list"
IsTimestamp(v) == v[1] = "timestamp"

\* x.size() of a string or list; an error (here: -1, failing every test) otherwise
Size(v) == IF IsString(v) \/ IsList(v) THEN Len(v[2]) ELSE 0 - 1

\* map.k : an error when the key is absent
Get(d, k) == IF k \in DOMAIN d THEN d[k] ELSE Undef

\* a == b, where an operand that failed to evaluate fails the comparison
Eq(a, b) == a # Undef /\ b # Undef /\ a = b

\* a == b + n on numbers; an error (false) when either side is not a number
EqPlus(a, b, n) == IsNumber(a) /\ IsNumber(b) /\ a[2] = b[2] + n

\* a >= n, a > n on numbers
Ge(a, n) == IsNumber(a) /\ a[2] >= n
Gt(a, n) == IsNumber(a) /\ a[2] > n
Le(a, n) == IsNumber(a) /\ a[2] <= n

EmptyDoc == [k \in {} |-> Undef]
Missing == [exists |-> FALSE, data |-> EmptyDoc]
Stored(d) == [exists |-> TRUE, data |-> d]

\* request.resource.data of an update: the stored document with the patch applied
Merge(d, patch) ==
    [k \in {j \in DOMAIN d \cup DOMAIN patch :
                j \in DOMAIN patch => patch[j] # Del} |->
        IF k \in DOMAIN patch THEN patch[k] ELSE d[k]]

\* request.resource.data.diff(resource.data).affectedKeys():
\* keys added, removed or changed
AffectedKeys(new, old) ==
    {k \in DOMAIN new \cup DOMAIN old :
        \/ k \notin DOMAIN new
        \/ k \notin DOMAIN old
        \/ new[k] # old[k]}

\* list.hasOnly(allowed), list.hasAny(some)
HasOnly(keys, allowed) == keys \subseteq allowed
HasAny(keys, some) == keys \cap some # {}

\* A document with one field replaced, and with one field removed
With(d, k, v) == [j \in DOMAIN d \cup {k} |-> IF j = k THEN v ELSE d[j]]
Without(d, k) == [j \in DOMAIN d \ {k} |-> d[j]]
Only(k, v) == [j \in {k} |-> v]

-----------------------------------------------------------------------------
(* Helper functions of the rule set *)

\* request.auth.token.email of an account
TokenEmail(uid) == Str(uid)

isAuthenticated(auth) == auth # Anon

getUserDocument(userId) == IF userId \in DOMAIN users THEN users[userId] ELSE Missing

getPropertyDocument(propertyId) ==
    IF propertyId \in DOMAIN properties THEN properties[propertyId] ELSE Missing

hasRole(auth, role) ==
    LET userDoc == getUserDocument(auth)
    IN  isAuthenticated(auth) /\ userDoc.exists /\ Eq(Get(userDoc.data, "role"), Str(role))

isPropertyOwner(auth, propertyId) ==
    LET propertyDoc == getPropertyDocument(propertyId)
    IN  propertyDoc.exists /\ Eq(Get(propertyDoc.data, "landlordId"), Str(auth))

-----------------------------------------------------------------------------
(* /users/{userId} *)

StudentOnlyKeys ==
    {"nationalId", "studentId", "nextOfKinName", "nextOfKinPhoneNumber",
     "nationalIdPhotoUrl", "studentIdPhotoUrl"}

UserKeys ==
    {"uid", "name", "email", "phoneNumber", "role", "profilePictureUrl",
     "savedPropertyIds"} \cup StudentOnlyKeys

MinPhoneLen == 10

usersAllowRead(auth, userId) ==
    isAuthenticated(auth) /\ (auth = userId \/ hasRole(auth, "landlord"))

usersAllowCreate(auth, userId, data) ==
    /\ isAuthenticated(auth) /\ auth = userId
    /\ Eq(Get(data, "uid"), Str(userId))
    /\ IsString(Get(data, "name")) /\ Size(Get(data, "name")) > 0
    /\ Eq(Get(data, "email"), TokenEmail(auth))
    /\ IsString(Get(data, "phoneNumber")) /\ Size(Get(data, "phoneNumber")) >= MinPhoneLen
    /\ (Eq(Get(data, "role"), Str("student")) \/ Eq(Get(data, "role"), Str("landlord")))
    /\ (~HasAny(DOMAIN data, StudentOnlyKeys) \/ Eq(Get(data, "role"), Str("student")))
    /\ ("savedPropertyIds" \notin DOMAIN data \/ Eq(Get(data, "role"), Str("student")))
    /\ HasOnly(DOMAIN data, UserKeys)

\* The update rule without "Role cannot be changed"
usersAllowUpdateAnyRole(auth, userId, data, resource) ==
    /\ isAuthenticated(auth) /\ auth = userId
    /\ Eq(Get(data, "email"), Get(resource.data, "email"))
    /\ Eq(Get(data, "uid"), Get(resource.data, "uid"))
    /\ (~HasAny(DOMAIN data, StudentOnlyKeys) \/ Eq(Get(resource.data, "role"), Str("student")))
    /\ ("savedPropertyIds" \notin DOMAIN data \/ Eq(Get(resource.data, "role"), Str("student")))
    /\ IsString(Get(data, "name")) /\ Size(Get(data, "name")) > 0
    /\ IsString(Get(data, "phoneNumber")) /\ Size(Get(data, "phoneNumber")) >= MinPhoneLen
    /\ ("profilePictureUrl" \notin DOMAIN data \/ IsString(data["profilePictureUrl"]))
    /\ ("nationalIdPhotoUrl" \notin DOMAIN data \/ IsString(data["nationalIdPhotoUrl"]))
    /\ ("studentIdPhotoUrl" \notin DOMAIN data \/ IsString(data["studentIdPhotoUrl"]))
    /\ HasOnly(DOMAIN data, UserKeys)

\* The update rule without "Student fields only for students"
usersAllowUpdateAnyFields(auth, userId, data, resource) ==
    /\ isAuthenticated(auth) /\ auth = userId
    /\ Eq(Get(data, "email"), Get(resource.data, "email"))
    /\ Eq(Get(data, "role"), Get(resource.data, "role"))
    /\ Eq(Get(data, "uid"), Get(resource.data, "uid"))
    /\ ("savedPropertyIds" \notin DOMAIN data \/ Eq(Get(resource.data, "role"), Str("student")))
    /\ IsString(Get(data, "name")) /\ Size(Get(data, "name")) > 0
    /\ IsString(Get(data, "phoneNumber")) /\ Size(Get(data, "phoneNumber")) >= MinPhoneLen
    /\ ("profilePictureUrl" \notin DOMAIN data \/ IsString(data["profilePictureUrl"]))
    /\ ("nationalIdPhotoUrl" \notin DOMAIN data \/ IsString(data["nationalIdPhotoUrl"]))
    /\ ("studentIdPhotoUrl" \notin DOMAIN data \/ IsString(data["studentIdPhotoUrl"]))
    /\ HasOnly(DOMAIN data, UserKeys)

usersAllowUpdate(auth, userId, data, resource) ==
    /\ isAuthenticated(auth) /\ auth = userId
    /\ Eq(Get(data, "email"), Get(resource.data, "email"))
    /\ Eq(Get(data, "role"), Get(resource.data, "role"))
    /\ Eq(Get(data, "uid"), Get(resource.data, "uid"))
    /\ (~HasAny(DOMAIN data, StudentOnlyKeys) \/ Eq(Get(resource.data, "role"), Str("student")))
    /\ ("savedPropertyIds" \notin DOMAIN data \/ Eq(Get(resource.data, "role"), Str("student")))
    /\ IsString(Get(data, "name")) /\ Size(Get(data, "name")) > 0
    /\ IsString(Get(data, "phoneNumber")) /\ Size(Get(data, "phoneNumber")) >= MinPhoneLen
    /\ ("profilePictureUrl" \notin DOMAIN data \/ IsString(data["profilePictureUrl"]))
    /\ ("nationalIdPhotoUrl" \notin DOMAIN data \/ IsString(data["nationalIdPhotoUrl"]))
    /\ ("studentIdPhotoUrl" \notin DOMAIN data \/ IsString(data["studentIdPhotoUrl"]))
    /\ HasOnly(DOMAIN data, UserKeys)

\* The delete rule opened to the account itself
usersAllowDeleteSelf(auth, userId) == isAuthenticated(auth) /\ auth = userId

usersAllowDelete(auth, userId) == FALSE

-----------------------------------------------------------------------------
(* Requests on /users: the documents and patches clients send *)

OtherUid(uid) == CHOOSE u \in Uids : u # uid

\* A well-formed profile, as signup() writes it
BaseUser(uid, role) ==
    [k \in {"uid", "name", "email", "phoneNumber", "role"} |->
        CASE k = "uid" -> Str(uid)
          [] k = "name" -> Str("Ann")
          [] k = "email" -> TokenEmail(uid)
          [] k = "phoneNumber" -> Str("0771234567")
          [] k = "role" -> Str(role)]

\* Optional fields a request may carry ("isAdmin" is outside the allow-list)
ExtraUserFields ==
    {EmptyDoc,
     Only("profilePictureUrl", Str("pic")),
     Only("nationalId", Str("N1")),
     Only("savedPropertyIds", List(<<>>)),
     Only("isAdmin", Bool(TRUE))}

\* One field of a well-formed profile made wrong
UserDefects(uid) ==
    {Only("uid", Str(OtherUid(uid))),
     Only("name", Str("")),
     Only("name", Num(1)),
     Only("email", TokenEmail(OtherUid(uid))),
     Only("phoneNumber", Str("123")),
     Only("role", Str("admin")),
     Only("role", Del)}

Roles == {"student", "landlord"}

SignupVariants(userId) == ExtraUserFields \cup UserDefects(userId)

SignupPayload(userId, role, variant) == Merge(BaseUser(userId, role), variant)

UserPatches(userId) ==
    ExtraUserFields \cup UserDefects(userId)
        \cup {Only("role", Str("student")), Only("role", Str("landlord")),
              Only("profilePictureUrl", Num(1)),
              Only("profilePictureUrl", Del)}

-----------------------------------------------------------------------------
(* Write requests on /users *)

\* A write the rule set allowed: the operation, who made it, on which document
Write(op, auth, id) == [op |-> op, auth |-> auth, id |-> id]

NoWrite == Write("none", Anon, "")

Origin(data) ==
    [role |-> Get(data, "role"), uid |-> Get(data, "uid"), email |-> Get(data, "email")]

NoOrigin == [role |-> Undef, uid |-> Undef, email |-> Undef]

UsersCreateRequest(auth, userId, data) ==
    LET ok == usersAllowCreate(auth, userId, data)
    IN  /\ ~users[userId].exists
        /\ users' = IF ok THEN [users EXCEPT ![userId] = Stored(data)] ELSE users
        /\ userOrigin' = IF ok THEN [userOrigin EXCEPT ![userId] = Origin(data)]
                               ELSE userOrigin
        /\ last' = IF ok THEN Write("users.create", auth, userId) ELSE last
        /\ UNCHANGED <<others, properties, bookingInterests, enrollments, now, propertyOrigin>>

UsersUpdateRequest(auth, userId, patch) ==
    LET resource == users[userId]
        data == Merge(resource.data, patch)
        ok == usersAllowUpdate(auth, userId, data, resource)
    IN  /\ resource.exists
        /\ users' = IF ok THEN [users EXCEPT ![userId] = Stored(data)] ELSE users
        /\ last' = IF ok THEN Write("users.update", auth, userId) ELSE last
        /\ UNCHANGED <<others, properties, bookingInterests, enrollments, now, userOrigin,
                       propertyOrigin>>

UsersDeleteRequest(auth, userId) ==
    LET ok == usersAllowDelete(auth, userId)
    IN  /\ users[userId].exists
        /\ users' = IF ok THEN [users EXCEPT ![userId] = Missing] ELSE users
        /\ userOrigin' = IF ok THEN [userOrigin EXCEPT ![userId] = NoOrigin]
                               ELSE userOrigin
        /\ last' = IF ok THEN Write("users.delete", auth, userId) ELSE last
        /\ UNCHANGED <<others, properties, bookingInterests, enrollments, now, propertyOrigin>>

\* setDoc(doc(db, "users", userId), cleanProfileData) and arbitrary clients
UsersCreate ==
    \E userId \in Uids :
        /\ ~users[userId].exists
        /\ \E auth \in Requesters, role \in Roles, variant \in SignupVariants(userId) :
               UsersCreateRequest(auth, userId, SignupPayload(userId, role, variant))

\* The same with well-formed profiles only
UsersCreateBasic ==
    \E userId \in Uids :
        /\ ~users[userId].exists
        /\ \E role \in Roles : UsersCreateRequest(userId, userId, BaseUser(userId, role))

UsersUpdate ==
    \E userId \in Uids :
        /\ users[userId].exists
        /\ \E patch \in UserPatches(userId), auth \in Requesters :
               UsersUpdateRequest(auth, userId, patch)

UsersDelete ==
    \E auth \in Requesters, userId \in Uids : UsersDeleteRequest(auth, userId)

-----------------------------------------------------------------------------
(* AuthContext.updateUserProfile *)

\* mapFirestoreDocToUser: the cached profile of the signed-in account
mapFirestoreDocToUser(uid, firestoreData) ==
    LET d == Merge(firestoreData,
                   [k \in {"uid", "email"} |->
                        IF k = "uid" THEN Str(uid) ELSE TokenEmail(uid)])
    IN  IF "savedPropertyIds" \in DOMAIN d THEN d
        ELSE With(d, "savedPropertyIds", List(<<>>))

\* Drops the keys whose value is '' (set to undefined, then cleaned away)
DropEmpty(d, keys) ==
    [k \in {j \in DOMAIN d : ~(j \in keys /\ d[j] = Str(""))} |-> d[k]]

DropKeys(d, keys) == [k \in DOMAIN d \ keys |-> d[k]]

\* The fields updateUserProfile sends to updateDoc for the form fields
\* `updatedFields` and the set `files` of attached files
updateUserProfile(user, updatedFields, files) ==
    LET isStudent == Get(user, "role") = Str("student")
        f1 == IF "profilePictureFile" \in files
              THEN With(updatedFields, "profilePictureUrl", Str("pic"))
              ELSE updatedFields
        f2 == IF isStudent /\ "nationalIdFile" \in files
              THEN With(f1, "nationalIdPhotoUrl", Str("nid"))
              ELSE f1
        f3 == IF isStudent /\ "studentIdFile" \in files
              THEN With(f2, "studentIdPhotoUrl", Str("sid"))
              ELSE f2
        f4 == Merge(f3, [k \in {"email", "role", "uid"} |-> user[k]])
        f5 == DropEmpty(f4, {"nationalId", "studentId"})
        f6 == IF isStudent
              THEN DropEmpty(f5, {"nextOfKinName", "nextOfKinPhoneNumber"})
              ELSE DropKeys(f5, StudentOnlyKeys)
    IN  IF isStudent /\ "savedPropertyIds" \notin DOMAIN f6
        THEN With(f6, "savedPropertyIds", user["savedPropertyIds"])
        ELSE IF Get(user, "role") = Str("landlord")
             THEN DropKeys(f6, {"savedPropertyIds"})
             ELSE f6

\* Form contents of the profile and booking pages
ProfileForms ==
    {EmptyDoc,
     Only("name", Str("Bob")),
     Only("nationalId", Str("N1")),
     Only("nationalId", Str("")),
     Only("savedPropertyIds", List(<<>>)),
     [k \in {"role", "email"} |-> IF k = "role" THEN Str("landlord") ELSE Str("evil")]}

ProfileFiles == {{}, {"profilePictureFile"}, {"nationalIdFile"}}

UpdateUserProfile ==
    \E uid \in Uids, updatedFields \in ProfileForms, files \in ProfileFiles :
        /\ users[uid].exists
        /\ UsersUpdateRequest(uid, uid,
               updateUserProfile(mapFirestoreDocToUser(uid, users[uid].data),
                                 updatedFields, files))

-----------------------------------------------------------------------------
(* The server clock *)

Tick ==
    /\ now < MaxTime
    /\ now' = now + 1
    /\ UNCHANGED <<others, users, properties, bookingInterests, enrollments, userOrigin,
                   propertyOrigin, last>>

\* No call in flight
Idle == [fn |-> "idle"]

\* No object stored under the path
NoFile == [exists |-> FALSE]

Init ==
    /\ reviews = [r \in ReviewIds |-> Missing]
    /\ reviewOrigin = [r \in ReviewIds |-> Undef]
    /\ calls = [s \in Sessions |-> Idle]
    /\ storage = [u \in Uids |-> NoFile]
    /\ propertyImages = [fullPath \in {} |-> NoFile]
    /\ users = [u \in Uids |-> Missing]
    /\ properties = [p \in PropertyIds |-> Missing]
    /\ bookingInterests = [i \in InterestIds |-> Missing]
    /\ enrollments = [e \in EnrollmentIds |-> Missing]
    /\ now = 0
    /\ userOrigin = [u \in Uids |-> NoOrigin]
    /\ propertyOrigin = [p \in PropertyIds |-> [landlordId |-> Undef, createdAt |-> Undef]]
    /\ last = NoWrite

NextUsers ==
    \/ UsersCreate
    \/ UsersUpdate
    \/ UsersDelete
    \/ UpdateUserProfile

SpecUsers == Init /\ [][NextUsers]_vars

-----------------------------------------------------------------------------
(* /properties/{propertyId} *)

MinDescriptionLen == 20

isValidPropertyDataForCreate(auth, time, data) ==
    /\ IsString(Get(data, "name")) /\ Size(Get(data, "name")) > 0
    /\ IsString(Get(data, "address")) /\ Size(Get(data, "address")) > 0
    /\ IsString(Get(data, "city")) /\ Size(Get(data, "city")) > 0
    /\ IsString(Get(data, "suburb")) /\ Size(Get(data, "suburb")) > 0
    /\ IsString(Get(data, "description"))
    /\ Size(Get(data, "description")) >= MinDescriptionLen
    /\ IsString(Get(data, "type"))
    /\ IsNumber(Get(data, "capacity")) /\ Ge(Get(data, "capacity"), 1)
    /\ IsString(Get(data, "genderPreference"))
    /\ IsList(Get(data, "amenities"))
    /\ IsNumber(Get(data, "price")) /\ Gt(Get(data, "price"), 0)
    /\ IsList(Get(data, "availability"))
    /\ IsList(Get(data, "images")) /\ Size(Get(data, "images")) > 0
    /\ Eq(Get(data, "landlordId"), Str(auth))
    /\ IsString(Get(data, "landlordName"))
    /\ IsString(Get(data, "landlordEmail"))
    /\ IsString(Get(data, "landlordPhoneNumber"))
    /\ Eq(Get(data, "viewCount"), Num(0))
    /\ Eq(Get(data, "interestedCount"), Num(0))
    /\ Eq(Get(data, "averageRating"), Num(0))
    /\ Eq(Get(data, "enrolledStudentsCount"), Num(0))
    /\ Eq(Get(data, "createdAt"), Ts(time))
    /\ Eq(Get(data, "updatedAt"), Ts(time))

\* The update validation without "CreatedAt cannot change"
isValidPropertyDataForUpdateAnyCreatedAt(data, resource) ==
    /\ IsString(Get(data, "name")) /\ Size(Get(data, "name")) > 0
    /\ IsString(Get(data, "address")) /\ Size(Get(data, "address")) > 0
    /\ Eq(Get(data, "landlordId"), Get(resource.data, "landlordId"))

isValidPropertyDataForUpdate(data, resource) ==
    /\ IsString(Get(data, "name")) /\ Size(Get(data, "name")) > 0
    /\ IsString(Get(data, "address")) /\ Size(Get(data, "address")) > 0
    /\ Eq(Get(data, "landlordId"), Get(resource.data, "landlordId"))
    /\ Eq(Get(data, "createdAt"), Get(resource.data, "createdAt"))

\* The read rule for signed-in requesters only
propertiesAllowReadSignedIn(auth, propertyId) == isAuthenticated(auth)

propertiesAllowRead(auth, propertyId) == TRUE

\* The create rule without its role check
propertiesAllowCreateAnyRole(auth, time, data) ==
    isAuthenticated(auth) /\ isValidPropertyDataForCreate(auth, time, data)

propertiesAllowCreate(auth, time, data) ==
    hasRole(auth, "landlord") /\ isValidPropertyDataForCreate(auth, time, data)

\* Case 1: Landlord updates their property
LandlordEditCase(auth, propertyId, data, resource) ==
    isPropertyOwner(auth, propertyId) /\ isValidPropertyDataForUpdate(data, resource)

\* Case 2 without its affectedKeys().hasOnly check
ViewCountCaseAnyKeys(data, resource) ==
    EqPlus(Get(data, "viewCount"), Get(resource.data, "viewCount"), 1)

\* Case 2: Any authenticated user increments viewCount by 1
ViewCountCase(data, resource) ==
    /\ EqPlus(Get(data, "viewCount"), Get(resource.data, "viewCount"), 1)
    /\ HasOnly(AffectedKeys(data, resource.data), {"viewCount", "updatedAt"})

\* Case 3 without its affectedKeys().hasOnly check
AverageRatingCaseAnyKeys(auth, data, resource) ==
    /\ hasRole(auth, "student")
    /\ IsNumber(Get(data, "averageRating"))

\* Case 3: Student updates averageRating (e.g., after a review)
AverageRatingCase(auth, data, resource) ==
    /\ hasRole(auth, "student")
    /\ IsNumber(Get(data, "averageRating"))
    /\ HasOnly(AffectedKeys(data, resource.data), {"averageRating", "updatedAt"})

\* Case 4 with any number for interestedCount
InterestedCountCaseAnyStep(auth, data, resource) ==
    /\ hasRole(auth, "student")
    /\ IsNumber(Get(data, "interestedCount"))
    /\ HasOnly(AffectedKeys(data, resource.data), {"interestedCount", "updatedAt"})

\* Case 4: Student increments interestedCount (e.g., after booking interest)
InterestedCountCase(auth, data, resource) ==
    /\ hasRole(auth, "student")
    /\ EqPlus(Get(data, "interestedCount"), Get(resource.data, "interestedCount"), 1)
    /\ HasOnly(AffectedKeys(data, resource.data), {"interestedCount", "updatedAt"})

\* Case 5: Landlord updates enrolledStudentsCount (e.g., after enrollment/checkout)
EnrolledCountCase(auth, propertyId, data, resource) ==
    /\ isPropertyOwner(auth, propertyId)
    /\ IsNumber(Get(data, "enrolledStudentsCount"))
    /\ \/ EqPlus(Get(data, "enrolledStudentsCount"),
                 Get(resource.data, "enrolledStudentsCount"), 1)
       \/ EqPlus(Get(data, "enrolledStudentsCount"),
                 Get(resource.data, "enrolledStudentsCount"), 0 - 1)
    /\ HasOnly(AffectedKeys(data, resource.data), {"enrolledStudentsCount", "updatedAt"})

propertiesAllowUpdate(auth, time, propertyId, data, resource) ==
    /\ isAuthenticated(auth)
    /\ Eq(Get(data, "updatedAt"), Ts(time))
    /\ \/ LandlordEditCase(auth, propertyId, data, resource)
       \/ ViewCountCase(data, resource)
       \/ AverageRatingCase(auth, data, resource)
       \/ InterestedCountCase(auth, data, resource)
       \/ EnrolledCountCase(auth, propertyId, data, resource)

propertiesAllowDelete(auth, propertyId) ==
    hasRole(auth, "landlord") /\ isPropertyOwner(auth, propertyId)

-----------------------------------------------------------------------------
(* Requests on /properties *)

\* A time other than the request time (a client clock, an old timestamp)
OtherTime(time) == (time + 1) % (MaxTime + 1)

PropertyKeys ==
    {"name", "address", "city", "suburb", "description", "type", "capacity",
     "genderPreference", "amenities", "price", "availability", "images",
     "landlordId", "landlordName", "landlordEmail", "landlordPhoneNumber",
     "viewCount", "interestedCount", "averageRating", "enrolledStudentsCount",
     "createdAt", "updatedAt"}

\* newPropertyDataForFirestore of addProperty, stamped with `time`
BaseProperty(landlord, time) ==
    [k \in PropertyKeys |->
        CASE k \in {"capacity"} -> Num(2)
          [] k \in {"price"} -> Num(100)
          [] k \in {"amenities", "availability"} -> List(<<>>)
          [] k = "images" -> List(<<Str("img")>>)
          [] k = "description" -> Str("A bright room near campus")
          [] k = "landlordId" -> Str(landlord)
          [] k \in {"viewCount", "interestedCount", "averageRating",
                    "enrolledStudentsCount"} -> Num(0)
          [] k \in {"createdAt", "updatedAt"} -> Ts(time)
          [] OTHER -> Str("x")]

\* One field of a well-formed property made wrong: one per check of
\* isValidPropertyDataForCreate
PropertyDefects(landlord, time) ==
    {Only(k, Str("")) : k \in {"name", "address", "city", "suburb"}}
    \cup {Only(k, Num(1)) : k \in {"type", "genderPreference", "landlordName",
                                   "landlordEmail", "landlordPhoneNumber",
                                   "viewCount", "interestedCount", "averageRating",
                                   "enrolledStudentsCount"}}
    \cup {Only(k, Str("x")) : k \in {"amenities", "availability", "description"}}
    \cup {Only(k, Num(0)) : k \in {"capacity", "price"}}
    \cup {Only("images", List(<<>>)),
          Only("landlordId", Str(OtherUid(landlord))),
          Only("createdAt", Ts(OtherTime(time))),
          Only("updatedAt", Ts(OtherTime(time)))}

PropertyCreatePayload(landlord, time, defect) ==
    Merge(BaseProperty(landlord, time), defect)

Plus(v, n) == IF IsNumber(v) THEN Num(v[2] + n) ELSE v

\* The field changes a property update may carry, besides updatedAt: one
\* field, or a counter together with a field outside its shape
PropertyChanges(d) ==
    LET view == Only("viewCount", Plus(Get(d, "viewCount"), 1))
        interested == Only("interestedCount", Plus(Get(d, "interestedCount"), 1))
        enrolled == Only("enrolledStudentsCount", Plus(Get(d, "enrolledStudentsCount"), 1))
        rating == Only("averageRating", Num(4))
        landlordId == Only("landlordId", Str(OtherUid(Get(d, "landlordId")[2])))
        createdAt == Only("createdAt", Ts(OtherTime(Get(d, "createdAt")[2])))
        one ==
            {view, interested, enrolled, rating, landlordId, createdAt,
             Only("name", Str("")), Only("address", Str("")),
             Only("price", Num(200)),
             Only("averageRating", Str("x")),
             Only("viewCount", Plus(Get(d, "viewCount"), 2)),
             Only("interestedCount", Plus(Get(d, "interestedCount"), 2)),
             Only("enrolledStudentsCount", Plus(Get(d, "enrolledStudentsCount"), 2)),
             Only("enrolledStudentsCount", Plus(Get(d, "enrolledStudentsCount"), 0 - 1))}
        two ==
            {Merge(view, createdAt), Merge(rating, landlordId),
             Merge(interested, view), Merge(enrolled, Only("name", Str("")))}
    IN  {EmptyDoc} \cup one \cup two

\* Update patches: a change stamped with the request time, and two that are not
PropertyPatches(d, time) ==
    {With(c, "updatedAt", Ts(time)) : c \in PropertyChanges(d)}
    \cup {Only("viewCount", Plus(Get(d, "viewCount"), 1)),
          [k \in {"enrolledStudentsCount", "updatedAt"} |->
              IF k = "updatedAt" THEN Ts(OtherTime(time))
              ELSE Plus(Get(d, "enrolledStudentsCount"), 1)]}

\* What a signed-out visitor sends: getPropertyById's view count increment
VisitorPatches(d, time) ==
    {With(Only("viewCount", Plus(Get(d, "viewCount"), 1)), "updatedAt", Ts(time))}

\* The counter values the model lets a stored property take: none below
\* zero, and no more than MaxCount in all
CounterKeys == {"viewCount", "interestedCount", "enrolledStudentsCount"}

CounterOf(data, k) == IF IsNumber(Get(data, k)) THEN Get(data, k)[2] ELSE 0

InCounterBounds(data) ==
    /\ \A k \in CounterKeys : CounterOf(data, k) >= 0
    /\ CounterOf(data, "viewCount") + CounterOf(data, "interestedCount")
           + CounterOf(data, "enrolledStudentsCount") <= MaxCount

PropertyOrigin(data) ==
    [landlordId |-> Get(data, "landlordId"), createdAt |-> Get(data, "createdAt")]

NoPropertyOrigin == [landlordId |-> Undef, createdAt |-> Undef]

PropertiesCreateRequest(auth, propertyId, data) ==
    LET ok == propertiesAllowCreate(auth, now, data)
    IN  /\ ~properties[propertyId].exists
        /\ properties' = IF ok THEN [properties EXCEPT ![propertyId] = Stored(data)]
                               ELSE properties
        /\ propertyOrigin' = IF ok THEN [propertyOrigin EXCEPT
                                            ![propertyId] = PropertyOrigin(data)]
                                   ELSE propertyOrigin
        /\ last' = IF ok THEN Write("properties.create", auth, propertyId)
                         ELSE last
        /\ UNCHANGED <<others, users, bookingInterests, enrollments, now, userOrigin>>

PropertiesUpdateRequest(auth, propertyId, patch) ==
    LET resource == properties[propertyId]
        data == Merge(resource.data, patch)
        ok == propertiesAllowUpdate(auth, now, propertyId, data, resource)
    IN  /\ resource.exists
        /\ ok => InCounterBounds(data)
        /\ properties' = IF ok THEN [properties EXCEPT ![propertyId] = Stored(data)]
                               ELSE properties
        /\ last' = IF ok THEN Write("properties.update", auth, propertyId)
                         ELSE last
        /\ UNCHANGED <<others, users, bookingInterests, enrollments, now, userOrigin,
                       propertyOrigin>>

PropertiesDeleteRequest(auth, propertyId) ==
    LET ok == propertiesAllowDelete(auth, propertyId)
    IN  /\ properties[propertyId].exists
        /\ properties' = IF ok THEN [properties EXCEPT ![propertyId] = Missing]
                               ELSE properties
        /\ propertyOrigin' = IF ok THEN [propertyOrigin EXCEPT
                                            ![propertyId] = NoPropertyOrigin]
                                   ELSE propertyOrigin
        /\ last' = IF ok THEN Write("properties.delete", auth, propertyId)
                         ELSE last
        /\ UNCHANGED <<others, users, bookingInterests, enrollments, now, userOrigin>>

\* addDoc(propertiesCollection, ...) by any client, well-formed or not
PropertiesCreate ==
    \E propertyId \in PropertyIds :
        /\ ~properties[propertyId].exists
        /\ \E auth \in Requesters, landlord \in Uids :
               /\ auth \in Uids => landlord = auth
               /\ \E defect \in {EmptyDoc} \cup PropertyDefects(landlord, now) :
                      PropertiesCreateRequest(auth, propertyId,
                          PropertyCreatePayload(landlord, now, defect))

\* Well-formed listings only
PropertiesCreateBasic ==
    \E propertyId \in PropertyIds :
        /\ ~properties[propertyId].exists
        /\ \E auth \in Uids :
               PropertiesCreateRequest(auth, propertyId, BaseProperty(auth, now))

PropertiesUpdate ==
    \E propertyId \in PropertyIds :
        /\ properties[propertyId].exists
        /\ \/ \E patch \in PropertyPatches(properties[propertyId].data, now) :
                  \E auth \in Uids : PropertiesUpdateRequest(auth, propertyId, patch)
           \/ \E patch \in VisitorPatches(properties[propertyId].data, now) :
                  PropertiesUpdateRequest(Anon, propertyId, patch)

PropertiesDelete ==
    \E auth \in Requesters, propertyId \in PropertyIds :
        PropertiesDeleteRequest(auth, propertyId)

NextProperties ==
    \/ UsersCreateBasic
    \/ PropertiesCreate
    \/ PropertiesUpdate
    \/ PropertiesDelete
    \/ Tick

SpecProperties == Init /\ [][NextProperties]_vars

\* getDoc(doc(db, "properties", propertyId)); a denied read returns nothing
PropertiesGetRequest(auth, propertyId) ==
    /\ propertiesAllowRead(auth, propertyId)
    /\ last' = Write("properties.get", auth, propertyId)
    /\ UNCHANGED <<others, users, properties, bookingInterests, enrollments, now,
                   userOrigin, propertyOrigin>>

PropertiesGet ==
    \E auth \in Requesters, propertyId \in PropertyIds :
        PropertiesGetRequest(auth, propertyId)

NextPropertyReads ==
    \/ UsersCreateBasic
    \/ PropertiesCreate
    \/ PropertiesDelete
    \/ PropertiesGet
    \/ Tick

SpecPropertyReads == Init /\ [][NextPropertyReads]_vars

-----------------------------------------------------------------------------
(* match /bookingInterests/{interestId} *)

LandlordStatuses == {"contacted", "rejected", "accepted", "archived"}

OptionalString(data, k) == k \notin DOMAIN data \/ IsString(data[k])

\* getPropertyDocument(resource.data.propertyId)
ReferencedProperty(resource) ==
    LET propertyId == Get(resource.data, "propertyId")
    IN  IF IsString(propertyId) THEN getPropertyDocument(propertyId[2]) ELSE Missing

\* The read rule with any landlord in place of the property's owner
bookingInterestsAllowReadAnyLandlord(auth, resource) ==
    /\ isAuthenticated(auth)
    /\ \/ Eq(Str(auth), Get(resource.data, "studentId"))
       \/ hasRole(auth, "landlord")

bookingInterestsAllowRead(auth, resource) ==
    /\ isAuthenticated(auth)
    /\ \/ Eq(Str(auth), Get(resource.data, "studentId"))
       \/ /\ hasRole(auth, "landlord")
          /\ ReferencedProperty(resource).exists
          /\ Eq(Get(ReferencedProperty(resource).data, "landlordId"), Str(auth))

bookingInterestsAllowCreate(auth, time, data) ==
    /\ hasRole(auth, "student")
    /\ Eq(Str(auth), Get(data, "studentId"))
    /\ Eq(Get(data, "status"), Str("pending"))
    /\ Eq(Get(data, "submittedAt"), Ts(time))
    /\ IsString(Get(data, "propertyId"))
    /\ IsString(Get(data, "propertyName"))
    /\ IsString(Get(data, "studentName"))
    /\ IsString(Get(data, "studentEmail"))
    /\ IsString(Get(data, "nationalId"))
    /\ IsString(Get(data, "studentAppId"))
    /\ IsTimestamp(Get(data, "checkInDate"))
    /\ IsTimestamp(Get(data, "checkOutDate"))
    /\ OptionalString(data, "message")
    /\ OptionalString(data, "nationalIdPhotoUrl")
    /\ OptionalString(data, "studentIdPhotoUrl")

\* The landlord branch with any status string
InterestLandlordCaseAnyStatus(auth, data, resource) ==
    /\ hasRole(auth, "landlord")
    /\ ReferencedProperty(resource).exists
    /\ Eq(Get(ReferencedProperty(resource).data, "landlordId"), Str(auth))
    /\ IsString(Get(data, "status"))

\* First branch of the update rule: the landlord of the referenced property
InterestLandlordCase(auth, data, resource) ==
    /\ hasRole(auth, "landlord")
    /\ ReferencedProperty(resource).exists
    /\ Eq(Get(ReferencedProperty(resource).data, "landlordId"), Str(auth))
    /\ \E status \in LandlordStatuses : Eq(Get(data, "status"), Str(status))

\* The student branch without resource.data.status != 'accepted'
InterestStudentCaseAnyStatus(auth, data, resource) ==
    /\ Eq(Str(auth), Get(resource.data, "studentId"))
    /\ Eq(Get(data, "status"), Str("archived"))
    /\ Get(resource.data, "status") # Undef

\* Second branch: the applying student archives a non-accepted interest
InterestStudentCase(auth, data, resource) ==
    /\ Eq(Str(auth), Get(resource.data, "studentId"))
    /\ Eq(Get(data, "status"), Str("archived"))
    /\ Get(resource.data, "status") # Undef
    /\ Get(resource.data, "status") # Str("accepted")

\* The update rule without its affectedKeys().hasOnly check
bookingInterestsAllowUpdateAnyKeys(auth, time, data, resource) ==
    /\ isAuthenticated(auth)
    /\ Eq(Get(data, "updatedAt"), Ts(time))
    /\ \/ InterestLandlordCase(auth, data, resource)
       \/ InterestStudentCase(auth, data, resource)

bookingInterestsAllowUpdate(auth, time, data, resource) ==
    /\ isAuthenticated(auth)
    /\ Eq(Get(data, "updatedAt"), Ts(time))
    /\ \/ InterestLandlordCase(auth, data, resource)
       \/ InterestStudentCase(auth, data, resource)
    /\ HasOnly(AffectedKeys(data, resource.data), {"status", "updatedAt"})

-----------------------------------------------------------------------------
(* Requests on /bookingInterests: addBookingInterest,
   updateBookingInterestStatus, and arbitrary clients *)

\* fullInterestData of addBookingInterest for a student without ID photos
BaseInterest(student, propertyId, time) ==
    [propertyId |-> Str(propertyId), propertyName |-> Str("Nest"),
     studentId |-> Str(student), studentName |-> Str("Sam"),
     studentEmail |-> TokenEmail(student), nationalId |-> Str("N1"),
     studentAppId |-> Str("A1"), checkInDate |-> Ts(0), checkOutDate |-> Ts(1),
     message |-> Str(""), status |-> Str("pending"), submittedAt |-> Ts(time)]

\* One deviation from the base application per check of the create rule
InterestDefects(student, time) ==
    {Only("studentId", Str(OtherUid(student))), Only("status", Str("accepted")),
     Only("submittedAt", Ts(OtherTime(time))), Only("propertyId", Num(1)),
     Only("nationalId", Del), Only("checkInDate", Str("2024-01-01")),
     Only("message", Num(0)), Only("nationalIdPhotoUrl", Str("url"))}

InterestPayload(student, propertyId, time, defect) ==
    Merge(BaseInterest(student, propertyId, time), defect)

InterestStatuses == {"pending"} \cup LandlordStatuses

Stamp(patch, time) == With(patch, "updatedAt", Ts(time))

\* { status: newStatus, updatedAt: Timestamp.now() } with the client clock
\* agreeing with the server's or not, and requests that touch more
InterestPatches(d, time) ==
    {Stamp(Only("status", Str(status)), time) :
         status \in InterestStatuses \cup {"withdrawn"}}
        \cup {Stamp(Only("status", Str("archived")), OtherTime(time)),
              Only("status", Str("archived")),
              Only("status", Str("accepted")),
              Stamp(With(Only("status", Str("archived")),
                         "studentId", Str(OtherUid(Get(d, "studentId")[2]))), time),
              Stamp(With(Only("status", Str("accepted")),
                         "propertyId", Str("p0")), time),
              Stamp(With(Only("status", Str("contacted")),
                         "message", Str("edited")), time),
              Stamp(Only("nationalId", Str("N2")), time)}

InterestsCreateRequest(auth, interestId, data) ==
    LET ok == bookingInterestsAllowCreate(auth, now, data)
    IN  /\ ~bookingInterests[interestId].exists
        /\ bookingInterests' = IF ok THEN [bookingInterests EXCEPT
                                              ![interestId] = Stored(data)]
                                     ELSE bookingInterests
        /\ last' = IF ok THEN Write("bookingInterests.create", auth, interestId)
                         ELSE last
        /\ UNCHANGED <<others, users, properties, enrollments, now, userOrigin,
                       propertyOrigin>>

InterestsUpdateRequest(auth, interestId, patch) ==
    LET resource == bookingInterests[interestId]
        data == Merge(resource.data, patch)
        ok == bookingInterestsAllowUpdate(auth, now, data, resource)
    IN  /\ resource.exists
        /\ bookingInterests' = IF ok THEN [bookingInterests EXCEPT
                                              ![interestId] = Stored(data)]
                                     ELSE bookingInterests
        /\ last' = IF ok THEN Write("bookingInterests.update", auth, interestId)
                         ELSE last
        /\ UNCHANGED <<others, users, properties, enrollments, now, userOrigin,
                       propertyOrigin>>

InterestsCreate ==
    \E interestId \in InterestIds :
        /\ ~bookingInterests[interestId].exists
        /\ \E auth \in Requesters, student \in Uids, propertyId \in PropertyIds :
               /\ auth \in Uids => student = auth
               /\ \E defect \in {EmptyDoc} \cup InterestDefects(student, now) :
                      InterestsCreateRequest(auth, interestId,
                          InterestPayload(student, propertyId, now, defect))

InterestsUpdate ==
    \E interestId \in InterestIds :
        /\ bookingInterests[interestId].exists
        /\ \E auth \in Requesters :
               \E patch \in InterestPatches(bookingInterests[interestId].data, now) :
                   InterestsUpdateRequest(auth, interestId, patch)

NextInterests ==
    \/ UsersCreateBasic
    \/ PropertiesCreateBasic
    \/ PropertiesDelete
    \/ InterestsCreate
    \/ InterestsUpdate
    \/ Tick

SpecInterests == Init /\ [][NextInterests]_vars

\* A get of one booking interest; a denied read returns nothing
InterestsGetRequest(auth, interestId) ==
    /\ bookingInterests[interestId].exists
    /\ bookingInterestsAllowRead(auth, bookingInterests[interestId])
    /\ last' = Write("bookingInterests.get", auth, interestId)
    /\ UNCHANGED <<others, users, properties, bookingInterests, enrollments, now,
                   userOrigin, propertyOrigin>>

InterestsGet ==
    \E interestId \in InterestIds, auth \in Requesters :
        InterestsGetRequest(auth, interestId)

NextInterestReads ==
    \/ UsersCreateBasic
    \/ PropertiesCreateBasic
    \/ PropertiesDelete
    \/ InterestsCreate
    \/ InterestsUpdate
    \/ InterestsGet
    \/ Tick

SpecInterestReads == Init /\ [][NextInterestReads]_vars

-----------------------------------------------------------------------------
(* match /enrollments/{enrollmentId} *)

enrollmentsAllowRead(auth, resource) ==
    /\ isAuthenticated(auth)
    /\ \/ Eq(Str(auth), Get(resource.data, "studentId"))
       \/ hasRole(auth, "landlord") /\ Eq(Get(resource.data, "landlordId"), Str(auth))

enrollmentsAllowCreate(auth, data) ==
    /\ hasRole(auth, "landlord")
    /\ Eq(Str(auth), Get(data, "landlordId"))
    /\ Eq(Get(data, "isActive"), Bool(TRUE))
    /\ IsString(Get(data, "propertyId"))
    /\ IsString(Get(data, "propertyName"))
    /\ IsString(Get(data, "studentId"))
    /\ IsString(Get(data, "studentName"))
    /\ IsTimestamp(Get(data, "checkInDate"))
    /\ IsTimestamp(Get(data, "rentDueDate"))
    /\ IsTimestamp(Get(data, "checkOutDate"))

ScheduleKeys == {"studentName", "checkInDate", "rentDueDate", "checkOutDate"}

\* The landlord branch without its affectedKeys().hasOnly check
EnrollmentLandlordCaseAnyKeys(auth, data, resource) ==
    /\ hasRole(auth, "landlord")
    /\ Eq(Str(auth), Get(resource.data, "landlordId"))

\* Landlord can update studentName, checkIn, rentDue, checkOut dates
EnrollmentLandlordCase(auth, data, resource) ==
    /\ hasRole(auth, "landlord")
    /\ Eq(Str(auth), Get(resource.data, "landlordId"))
    /\ HasOnly(AffectedKeys(data, resource.data), ScheduleKeys)

\* The student branch without request.resource.data.isActive == false
EnrollmentStudentCaseAnyActive(auth, time, data, resource) ==
    /\ Eq(Str(auth), Get(resource.data, "studentId"))
    /\ Eq(Get(resource.data, "isActive"), Bool(TRUE))
    /\ Eq(Get(data, "actualCheckoutDate"), Ts(time))
    /\ HasOnly(AffectedKeys(data, resource.data), {"isActive", "actualCheckoutDate"})

\* Student can deactivate (check-out)
EnrollmentStudentCase(auth, time, data, resource) ==
    /\ Eq(Str(auth), Get(resource.data, "studentId"))
    /\ Eq(Get(resource.data, "isActive"), Bool(TRUE))
    /\ Eq(Get(data, "isActive"), Bool(FALSE))
    /\ Eq(Get(data, "actualCheckoutDate"), Ts(time))
    /\ HasOnly(AffectedKeys(data, resource.data), {"isActive", "actualCheckoutDate"})

enrollmentsAllowUpdate(auth, time, data, resource) ==
    /\ isAuthenticated(auth)
    /\ \/ EnrollmentLandlordCase(auth, data, resource)
       \/ EnrollmentStudentCase(auth, time, data, resource)

enrollmentsAllowDelete(auth, resource) ==
    /\ hasRole(auth, "landlord")
    /\ Eq(Str(auth), Get(resource.data, "landlordId"))

-----------------------------------------------------------------------------
(* Requests on /enrollments: addEnrolledStudentToProperty,
   editEnrolledStudentInProperty, checkOutStudentFromProperty,
   removeEnrolledStudentFromProperty, and arbitrary clients *)

\* newEnrollmentData of addEnrolledStudentToProperty
BaseEnrollment(landlord, student, propertyId) ==
    [propertyId |-> Str(propertyId), propertyName |-> Str("Nest"),
     studentId |-> Str(student), studentName |-> Str("Sam"),
     landlordId |-> Str(landlord), checkInDate |-> Ts(0), rentDueDate |-> Ts(0),
     checkOutDate |-> Ts(1), isActive |-> Bool(TRUE)]

\* One deviation from the base record per check of the create rule
EnrollmentDefects(landlord) ==
    {Only("landlordId", Str(OtherUid(landlord))), Only("isActive", Bool(FALSE)),
     Only("isActive", Del), Only("studentId", Num(7)),
     Only("rentDueDate", Str("2024-02-01")), Only("propertyName", Del)}

EnrollmentPayload(landlord, student, propertyId, defect) ==
    Merge(BaseEnrollment(landlord, student, propertyId), defect)

\* The checkout and edit patches of the client, and requests that touch more
EnrollmentPatches(d, time) ==
    {With(Only("isActive", Bool(active)), "actualCheckoutDate", Ts(t)) :
         active \in BOOLEAN, t \in {time, OtherTime(time)}}
        \cup {Only("isActive", Bool(FALSE)), Only("isActive", Bool(TRUE)),
              Only("studentName", Str("Zoe")), Only("checkOutDate", Ts(0)),
              With(Only("studentName", Str("Zoe")), "isActive", Bool(TRUE)),
              With(Only("studentName", Str("Zoe")), "isActive", Bool(FALSE)),
              Only("landlordId", Str(OtherUid(Get(d, "landlordId")[2]))),
              With(With(Only("isActive", Bool(FALSE)), "actualCheckoutDate", Ts(time)),
                   "studentId", Str(OtherUid(Get(d, "studentId")[2])))}

EnrollmentsCreateRequest(auth, enrollmentId, data) ==
    LET ok == enrollmentsAllowCreate(auth, data)
    IN  /\ ~enrollments[enrollmentId].exists
        /\ enrollments' = IF ok THEN [enrollments EXCEPT ![enrollmentId] = Stored(data)]
                                ELSE enrollments
        /\ last' = IF ok THEN Write("enrollments.create", auth, enrollmentId)
                         ELSE last
        /\ UNCHANGED <<others, users, properties, bookingInterests, now, userOrigin,
                       propertyOrigin>>

EnrollmentsUpdateRequest(auth, enrollmentId, patch) ==
    LET resource == enrollments[enrollmentId]
        data == Merge(resource.data, patch)
        ok == enrollmentsAllowUpdate(auth, now, data, resource)
    IN  /\ resource.exists
        /\ enrollments' = IF ok THEN [enrollments EXCEPT ![enrollmentId] = Stored(data)]
                                ELSE enrollments
        /\ last' = IF ok THEN Write("enrollments.update", auth, enrollmentId)
                         ELSE last
        /\ UNCHANGED <<others, users, properties, bookingInterests, now, userOrigin,
                       propertyOrigin>>

EnrollmentsDeleteRequest(auth, enrollmentId) ==
    LET ok == enrollmentsAllowDelete(auth, enrollments[enrollmentId])
    IN  /\ enrollments[enrollmentId].exists
        /\ enrollments' = IF ok THEN [enrollments EXCEPT ![enrollmentId] = Missing]
                                ELSE enrollments
        /\ last' = IF ok THEN Write("enrollments.delete", auth, enrollmentId)
                         ELSE last
        /\ UNCHANGED <<others, users, properties, bookingInterests, now, userOrigin,
                       propertyOrigin>>

\* The document the requests of arbitrary clients address: the rules of an
\* enrollment read no other enrollment
RequestEnrollmentIds == {"e1"}

EnrollmentsCreate ==
    \E enrollmentId \in RequestEnrollmentIds :
        /\ ~enrollments[enrollmentId].exists
        /\ \E auth \in Requesters, landlord \in Uids, student \in Uids,
              propertyId \in PropertyIds :
               /\ auth \in Uids => landlord = auth
               /\ \E defect \in {EmptyDoc} \cup EnrollmentDefects(landlord) :
                      EnrollmentsCreateRequest(auth, enrollmentId,
                          EnrollmentPayload(landlord, student, propertyId, defect))

EnrollmentsUpdate ==
    \E enrollmentId \in RequestEnrollmentIds :
        /\ enrollments[enrollmentId].exists
        /\ \E auth \in Requesters :
               \E patch \in EnrollmentPatches(enrollments[enrollmentId].data, now) :
                   EnrollmentsUpdateRequest(auth, enrollmentId, patch)

EnrollmentsDelete ==
    \E auth \in Requesters, enrollmentId \in RequestEnrollmentIds :
        EnrollmentsDeleteRequest(auth, enrollmentId)

NextEnrollments ==
    \/ UsersCreateBasic
    \/ EnrollmentsCreate
    \/ EnrollmentsUpdate
    \/ EnrollmentsDelete
    \/ Tick

SpecEnrollments == Init /\ [][NextEnrollments]_vars

-----------------------------------------------------------------------------
(* The booking flow of the data-access layer: addBookingInterest,
   enrollStudentFromBookingInterest, checkOutStudentFromProperty.  Each call
   is made by the signed-in account and stamps its writes with
   Timestamp.now(), the clock of the browser, which agrees with the clock of
   the server or does not. *)

\* Timestamp.now()
ClientTimes == Times

\* Math.max(0, n)
Max0(n) == IF n < 0 THEN 0 ELSE n

\* writeBatch(db) ... batch.commit(): a write of the batch takes effect
\* when every write of the batch is allowed
BatchAppliesEach(ok, all) == ok

BatchApplies(ok, all) == all

\* The outcome of a call, kept in the history of writes
Call(fn, outcome, auth, id) == Write(fn \o "." \o outcome, auth, id)

AddBookingInterest ==
    \E student \in Uids, interestId \in InterestIds, propertyId \in PropertyIds,
       submitted \in ClientTimes, updated \in ClientTimes :
        LET data == BaseInterest(student, propertyId, submitted)
            okI == bookingInterestsAllowCreate(student, now, data)
            propertySnap == properties[propertyId]
            pData == Merge(propertySnap.data,
                         With(Only("interestedCount",
                                   Num(CounterOf(propertySnap.data, "interestedCount") + 1)),
                              "updatedAt", Ts(updated)))
            okP == /\ okI
                   /\ propertySnap.exists
                   /\ propertiesAllowUpdate(student, now, propertyId, pData, propertySnap)
        IN  /\ ~bookingInterests[interestId].exists
            /\ okP => InCounterBounds(pData)
            /\ bookingInterests' = IF okI THEN [bookingInterests EXCEPT
                                                  ![interestId] = Stored(data)]
                                         ELSE bookingInterests
            /\ properties' = IF okP THEN [properties EXCEPT ![propertyId] = Stored(pData)]
                                   ELSE properties
            /\ last' = Call("addBookingInterest", IF okP THEN "ok" ELSE "failed",
                            student, interestId)
            /\ UNCHANGED <<others, users, enrollments, now, userOrigin, propertyOrigin>>

\* newEnrollmentData of enrollStudentFromBookingInterest
EnrollmentFromInterest(interest, landlordId) ==
    [propertyId |-> Get(interest, "propertyId"),
     propertyName |-> Get(interest, "propertyName"),
     studentId |-> Get(interest, "studentId"),
     studentName |-> Get(interest, "studentName"),
     landlordId |-> Str(landlordId), checkInDate |-> Ts(0), rentDueDate |-> Ts(0),
     checkOutDate |-> Ts(1), isActive |-> Bool(TRUE)]

\* The property update of enrollStudentFromBookingInterest's batch
EnrolledFromInterestCounts(propertyData, updated) ==
    Merge(propertyData,
          [k \in {"enrolledStudentsCount", "interestedCount", "updatedAt"} |->
               IF k = "enrolledStudentsCount"
               THEN Num(CounterOf(propertyData, "enrolledStudentsCount") + 1)
               ELSE IF k = "interestedCount"
                    THEN Num(Max0(CounterOf(propertyData, "interestedCount") - 1))
                    ELSE Ts(updated)])

EnrollStudentFromBookingInterest ==
    \E landlordId \in Uids, interestId \in InterestIds, enrollmentId \in EnrollmentIds,
       accepted \in ClientTimes, updated \in ClientTimes :
        LET interest == bookingInterests[interestId]
            propertySnap == ReferencedProperty(interest)
            propertyId == Get(interest.data, "propertyId")[2]
            found == /\ propertySnap.exists
                     /\ Get(propertySnap.data, "landlordId") = Str(landlordId)
            eData == EnrollmentFromInterest(interest.data, landlordId)
            okE == enrollmentsAllowCreate(landlordId, eData)
            iData == Merge(interest.data,
                           Stamp(Only("status", Str("accepted")), accepted))
            okI == bookingInterestsAllowUpdate(landlordId, now, iData, interest)
            pData == EnrolledFromInterestCounts(propertySnap.data, updated)
            okP == propertiesAllowUpdate(landlordId, now, propertyId, pData, propertySnap)
            all == found /\ okE /\ okI /\ okP
        IN  /\ interest.exists
            /\ ~enrollments[enrollmentId].exists
            /\ found /\ BatchApplies(okP, all) => InCounterBounds(pData)
            /\ enrollments' = IF found /\ BatchApplies(okE, all)
                              THEN [enrollments EXCEPT ![enrollmentId] = Stored(eData)]
                              ELSE enrollments
            /\ bookingInterests' = IF found /\ BatchApplies(okI, all)
                                   THEN [bookingInterests EXCEPT
                                            ![interestId] = Stored(iData)]
                                   ELSE bookingInterests
            /\ properties' = IF found /\ BatchApplies(okP, all)
                             THEN [properties EXCEPT ![propertyId] = Stored(pData)]
                             ELSE properties
            /\ last' = Call("enrollStudentFromBookingInterest",
                            IF all THEN "ok" ELSE "failed", landlordId, interestId)
            /\ UNCHANGED <<others, users, now, userOrigin, propertyOrigin>>

\* The property update of checkOutStudentFromProperty's batch
CheckedOutCount(propertyData, updated) ==
    Merge(propertyData,
          With(Only("enrolledStudentsCount",
                    Num(Max0(CounterOf(propertyData, "enrolledStudentsCount") - 1))),
               "updatedAt", Ts(updated)))

CheckOutStudentFromProperty ==
    \E studentUserId \in Uids, enrollmentId \in EnrollmentIds,
       checkedOut \in ClientTimes, updated \in ClientTimes :
        LET enrollment == enrollments[enrollmentId]
            found == /\ enrollment.exists
                     /\ Get(enrollment.data, "studentId") = Str(studentUserId)
            eData == Merge(enrollment.data,
                           With(Only("isActive", Bool(FALSE)),
                                "actualCheckoutDate", Ts(checkedOut)))
            okE == enrollmentsAllowUpdate(studentUserId, now, eData, enrollment)
            propertySnap == ReferencedProperty(enrollment)
            propertyId == Get(enrollment.data, "propertyId")[2]
            pData == CheckedOutCount(propertySnap.data, updated)
            okP == propertySnap.exists =>
                       propertiesAllowUpdate(studentUserId, now, propertyId, pData,
                                             propertySnap)
            all == found /\ okE /\ okP
        IN  /\ enrollment.exists
            /\ enrollments' = IF found /\ BatchApplies(okE, all)
                              THEN [enrollments EXCEPT ![enrollmentId] = Stored(eData)]
                              ELSE enrollments
            /\ properties' = IF found /\ propertySnap.exists /\ BatchApplies(okP, all)
                             THEN [properties EXCEPT ![propertyId] = Stored(pData)]
                             ELSE properties
            /\ last' = Call("checkOutStudentFromProperty",
                            IF all THEN "true" ELSE "false", studentUserId, enrollmentId)
            /\ UNCHANGED <<others, users, bookingInterests, now, userOrigin,
                           propertyOrigin>>

NextTenancy ==
    \/ UsersCreateBasic
    \/ PropertiesCreateBasic
    \/ AddBookingInterest
    \/ EnrollStudentFromBookingInterest
    \/ CheckOutStudentFromProperty
    \/ Tick

SpecTenancy == Init /\ [][NextTenancy]_vars

-----------------------------------------------------------------------------
(* The enrollment operations of the data-access layer that move
   enrolledStudentsCount: addEnrolledStudentToProperty,
   removeEnrolledStudentFromProperty, with those of the booking flow *)

\* The property update of addEnrolledStudentToProperty, from the snapshot
\* read before the enrollment was added
EnrolledCountPlusOne(propertyData, updated) ==
    Merge(propertyData,
          With(Only("enrolledStudentsCount",
                    Num(CounterOf(propertyData, "enrolledStudentsCount") + 1)),
               "updatedAt", Ts(updated)))

AddEnrolledStudentToProperty ==
    \E landlordId \in Uids, studentId \in Uids, propertyId \in PropertyIds,
       enrollmentId \in EnrollmentIds, updated \in ClientTimes :
        LET propertySnap == properties[propertyId]
            found == /\ propertySnap.exists
                     /\ Get(propertySnap.data, "landlordId") = Str(landlordId)
            eData == BaseEnrollment(landlordId, studentId, propertyId)
            okE == found /\ enrollmentsAllowCreate(landlordId, eData)
            pData == EnrolledCountPlusOne(propertySnap.data, updated)
            okP == /\ okE
                   /\ propertiesAllowUpdate(landlordId, now, propertyId, pData,
                                            propertySnap)
        IN  /\ ~enrollments[enrollmentId].exists
            /\ okP => InCounterBounds(pData)
            /\ enrollments' = IF okE THEN [enrollments EXCEPT
                                              ![enrollmentId] = Stored(eData)]
                                    ELSE enrollments
            /\ properties' = IF okP THEN [properties EXCEPT ![propertyId] = Stored(pData)]
                                   ELSE properties
            /\ last' = Call("addEnrolledStudentToProperty",
                            IF okP THEN "ok" ELSE IF found THEN "failed" ELSE "notFound",
                            landlordId, enrollmentId)
            /\ UNCHANGED <<others, users, bookingInterests, now, userOrigin,
                           propertyOrigin>>

RemoveEnrolledStudentFromProperty ==
    \E landlordId \in Uids, enrollmentId \in EnrollmentIds, propertyId \in PropertyIds,
       updated \in ClientTimes :
        LET enrollment == enrollments[enrollmentId]
            found == /\ enrollment.exists
                     /\ Get(enrollment.data, "landlordId") = Str(landlordId)
                     /\ Get(enrollment.data, "propertyId") = Str(propertyId)
            okE == enrollmentsAllowDelete(landlordId, enrollment)
            propertySnap == properties[propertyId]
            pData == CheckedOutCount(propertySnap.data, updated)
            okP == propertySnap.exists =>
                       propertiesAllowUpdate(landlordId, now, propertyId, pData,
                                             propertySnap)
            all == found /\ okE /\ okP
        IN  /\ enrollment.exists
            /\ enrollments' = IF found /\ BatchApplies(okE, all)
                              THEN [enrollments EXCEPT ![enrollmentId] = Missing]
                              ELSE enrollments
            /\ properties' = IF found /\ propertySnap.exists /\ BatchApplies(okP, all)
                             THEN [properties EXCEPT ![propertyId] = Stored(pData)]
                             ELSE properties
            /\ last' = Call("removeEnrolledStudentFromProperty",
                            IF all THEN "true" ELSE IF found THEN "failed" ELSE "notFound",
                            landlordId, enrollmentId)
            /\ UNCHANGED <<others, users, bookingInterests, now, userOrigin,
                           propertyOrigin>>

NextEnrollmentCount ==
    \/ UsersCreateBasic
    \/ PropertiesCreateBasic
    \/ AddBookingInterest
    \/ AddEnrolledStudentToProperty
    \/ EnrollStudentFromBookingInterest
    \/ RemoveEnrolledStudentFromProperty
    \/ CheckOutStudentFromProperty
    \/ Tick

SpecEnrollmentCount == Init /\ [][NextEnrollmentCount]_vars

-----------------------------------------------------------------------------
(* getPropertyById: the view-count increment, a read followed by a write *)

\* (currentData.viewCount || 0) + 1, from the snapshot the call has read
IncrementedViewOfStored(seen, stored) == stored + 1

IncrementedView(seen, stored) == seen + 1

\* const docSnap = await getDoc(propertyDocRef)
GetPropertyByIdRead ==
    \E s \in Sessions, auth \in Requesters, id \in PropertyIds :
        /\ calls[s].fn \in {"idle", "viewed"}
        /\ properties[id].exists
        /\ calls' = [calls EXCEPT ![s] =
                         [fn |-> "getPropertyById", auth |-> auth, id |-> id,
                          seen |-> CounterOf(properties[id].data, "viewCount"),
                          wrote |-> FALSE]]
        /\ UNCHANGED <<users, properties, bookingInterests, enrollments, now,
                       userOrigin, propertyOrigin, last, reviews, reviewOrigin,
                       storage, propertyImages>>

\* await updateDoc(propertyDocRef, { viewCount: ..., updatedAt: Timestamp.now() })
GetPropertyByIdWrite ==
    \E s \in Sessions, updated \in ClientTimes :
        /\ calls[s].fn = "getPropertyById"
        /\ LET call == calls[s]
               resource == properties[call.id]
               viewCount == IncrementedView(call.seen,
                                            CounterOf(resource.data, "viewCount"))
               data == Merge(resource.data,
                             With(Only("viewCount", Num(viewCount)),
                                  "updatedAt", Ts(updated)))
               ok == /\ resource.exists
                     /\ propertiesAllowUpdate(call.auth, now, call.id, data, resource)
           IN  /\ ok => InCounterBounds(data)
               /\ properties' = IF ok THEN [properties EXCEPT ![call.id] = Stored(data)]
                                      ELSE properties
               /\ last' = IF ok THEN Write("properties.update", call.auth, call.id)
                                ELSE last
               /\ calls' = [calls EXCEPT ![s] = [call EXCEPT !.fn = "viewed",
                                                             !.wrote = ok]]
        /\ UNCHANGED <<users, bookingInterests, enrollments, now, userOrigin,
                       propertyOrigin, reviews, reviewOrigin, storage,
                       propertyImages>>

\* What a finished call returns: fromFirestorePropertyDoc(updatedSnap) after
\* the write, null from the catch branch when the write was rejected
GetPropertyByIdResult(call) == IF call.wrote THEN "property" ELSE "null"

NextViews ==
    \/ UsersCreateBasic
    \/ PropertiesCreateBasic
    \/ GetPropertyByIdRead
    \/ GetPropertyByIdWrite
    \/ Tick

SpecViews == Init /\ [][NextViews]_vars

-----------------------------------------------------------------------------
(* match /reviews/{reviewId} *)

reviewsAllowRead == TRUE

reviewsAllowCreate(auth, time, data) ==
    /\ hasRole(auth, "student")
    /\ Eq(Get(data, "studentId"), Str(auth))
    /\ IsString(Get(data, "propertyId"))
    /\ IsNumber(Get(data, "rating"))
    /\ Ge(Get(data, "rating"), 1)
    /\ Le(Get(data, "rating"), 5)
    /\ IsString(Get(data, "comment"))
    /\ Size(Get(data, "comment")) > 0
    /\ IsString(Get(data, "studentName"))
    /\ Eq(Get(data, "date"), Ts(time))

\* Student can update their own review
reviewsAllowUpdate(auth, resource) ==
    /\ hasRole(auth, "student")
    /\ Eq(Str(auth), Get(resource.data, "studentId"))

\* Student can delete their own review
reviewsAllowDelete(auth, resource) ==
    /\ hasRole(auth, "student")
    /\ Eq(Str(auth), Get(resource.data, "studentId"))

-----------------------------------------------------------------------------
(* Requests on /reviews: the documents and patches clients send *)

\* reviewDataForFirestore of addReview
BaseReview(student, propertyId, rating, time) ==
    [propertyId |-> Str(propertyId), studentId |-> Str(student),
     studentName |-> Str("Sam"), rating |-> Num(rating), comment |-> Str("ok"),
     date |-> Ts(time)]

\* One deviation from the base review per check of the create rule
ReviewDefects(student, time) ==
    {Only("studentId", Str(OtherUid(student))), Only("propertyId", Num(1)),
     Only("rating", Num(0)), Only("rating", Num(6)), Only("rating", Str("5")),
     Only("comment", Str("")), Only("studentName", Del),
     Only("date", Ts(OtherTime(time)))}

ReviewPayload(student, propertyId, rating, time, defect) ==
    Merge(BaseReview(student, propertyId, rating, time), defect)

\* Edits of a stored review: another rating inside or outside the range, a
\* rating that is no number, another studentId
ReviewPatches(d) ==
    {Only("rating", Num(3)), Only("rating", Num(6)), Only("rating", Str("5")),
     Only("studentId", Str(OtherUid(Get(d, "studentId")[2])))}

ReviewsCreateRequest(auth, reviewId, data) ==
    LET ok == reviewsAllowCreate(auth, now, data)
    IN  /\ ~reviews[reviewId].exists
        /\ reviews' = IF ok THEN [reviews EXCEPT ![reviewId] = Stored(data)]
                            ELSE reviews
        /\ reviewOrigin' = IF ok THEN [reviewOrigin EXCEPT ![reviewId] = Str(auth)]
                                 ELSE reviewOrigin
        /\ last' = IF ok THEN Write("reviews.create", auth, reviewId) ELSE last
        /\ UNCHANGED <<users, properties, bookingInterests, enrollments, now,
                       userOrigin, propertyOrigin, calls, storage,
                       propertyImages>>

ReviewsUpdateRequest(auth, reviewId, patch) ==
    LET resource == reviews[reviewId]
        data == Merge(resource.data, patch)
        ok == reviewsAllowUpdate(auth, resource)
    IN  /\ resource.exists
        /\ reviews' = IF ok THEN [reviews EXCEPT ![reviewId] = Stored(data)]
                            ELSE reviews
        /\ last' = IF ok THEN Write("reviews.update", auth, reviewId) ELSE last
        /\ UNCHANGED <<users, properties, bookingInterests, enrollments, now,
                       userOrigin, propertyOrigin, reviewOrigin, calls, storage,
                       propertyImages>>

ReviewsDeleteRequest(auth, reviewId) ==
    LET resource == reviews[reviewId]
        ok == reviewsAllowDelete(auth, resource)
    IN  /\ resource.exists
        /\ reviews' = IF ok THEN [reviews EXCEPT ![reviewId] = Missing]
                            ELSE reviews
        /\ reviewOrigin' = IF ok THEN [reviewOrigin EXCEPT ![reviewId] = Undef]
                                 ELSE reviewOrigin
        /\ last' = IF ok THEN Write("reviews.delete", auth, reviewId) ELSE last
        /\ UNCHANGED <<users, properties, bookingInterests, enrollments, now,
                       userOrigin, propertyOrigin, calls, storage,
                       propertyImages>>

ReviewRatings == {1, 5}

ReviewsCreate ==
    \E reviewId \in ReviewIds :
        /\ ~reviews[reviewId].exists
        /\ \E auth \in Requesters, student \in Uids, propertyId \in PropertyIds,
              rating \in ReviewRatings :
               /\ auth \in Uids => student = auth
               /\ \E defect \in {EmptyDoc} \cup ReviewDefects(student, now) :
                      ReviewsCreateRequest(auth, reviewId,
                          ReviewPayload(student, propertyId, rating, now, defect))

ReviewsUpdate ==
    \E reviewId \in ReviewIds :
        /\ reviews[reviewId].exists
        /\ \E auth \in Requesters, patch \in ReviewPatches(reviews[reviewId].data) :
               ReviewsUpdateRequest(auth, reviewId, patch)

ReviewsDelete ==
    \E reviewId \in ReviewIds :
        /\ reviews[reviewId].exists
        /\ \E auth \in Requesters : ReviewsDeleteRequest(auth, reviewId)

NextReviews ==
    \/ UsersCreateBasic
    \/ ReviewsCreate
    \/ ReviewsUpdate
    \/ ReviewsDelete
    \/ Tick

SpecReviews == Init /\ [][NextReviews]_vars

-----------------------------------------------------------------------------
(* ReviewForm and addReview: the duplicate check, a query followed by a write *)

\* The stored reviews of a property (getReviewsForProperty)
ReviewsOfProperty(propertyId) ==
    {r \in ReviewIds : /\ reviews[r].exists
                       /\ Eq(Get(reviews[r].data, "propertyId"), Str(propertyId))}

\* where("propertyId", "==", ...), where("studentId", "==", ...)
ExistingReviews(propertyId, studentId) ==
    {r \in ReviewsOfProperty(propertyId) :
         Eq(Get(reviews[r].data, "studentId"), Str(studentId))}

RECURSIVE TotalRating(_)
\* allReviewsForProperty.reduce((sum, r) => sum + r.rating, 0)
TotalRating(rs) ==
    IF rs = {} THEN 0
    ELSE LET r == CHOOSE x \in rs : TRUE
         IN  CounterOf(reviews[r].data, "rating") + TotalRating(rs \ {r})

\* parseFloat((totalRating / length).toFixed(1)), in tenths
NewAverageRating(totalRating, length) ==
    IF length > 0 THEN (20 * totalRating + length) \div (2 * length) ELSE 0

FormRatings == {0, 2, 5}
FormComments == {"", "ok"}

\* The form is rendered for the signed-in account with the reviews the page
\* has loaded
ReviewFormRender ==
    \E s \in Sessions, auth \in Uids, propertyId \in PropertyIds :
        /\ calls[s].fn = "idle"
        /\ users[auth].exists
        /\ calls' = [calls EXCEPT ![s] =
               [fn |-> "ReviewForm", auth |-> auth, id |-> propertyId,
                hasUserReviewed |->
                    /\ Get(users[auth].data, "role") = Str("student")
                    /\ \E r \in ReviewsOfProperty(propertyId) :
                           Get(reviews[r].data, "studentId") = Str(auth)]]
        /\ UNCHANGED <<users, properties, bookingInterests, enrollments, now,
                       userOrigin, propertyOrigin, last, reviews, reviewOrigin,
                       storage, propertyImages>>

\* handleSubmit up to the first await of addReview
HandleSubmit ==
    \E s \in Sessions, rating \in FormRatings, comment \in FormComments :
        /\ calls[s].fn = "ReviewForm"
        /\ LET form == calls[s]
               refused == \/ Get(users[form.auth].data, "role") # Str("student")
                          \/ form.hasUserReviewed
                          \/ rating = 0
                          \/ comment = ""
           IN  calls' = [calls EXCEPT ![s] =
                   IF refused THEN Idle
                   ELSE [fn |-> "addReview.getDocs", auth |-> form.auth,
                         id |-> form.id, rating |-> rating, comment |-> comment]]
        /\ UNCHANGED <<users, properties, bookingInterests, enrollments, now,
                       userOrigin, propertyOrigin, last, reviews, reviewOrigin,
                       storage, propertyImages>>

\* const existingReviewsSnap = await getDocs(existingReviewQuery)
AddReviewQuery ==
    \E s \in Sessions :
        /\ calls[s].fn = "addReview.getDocs"
        /\ LET call == calls[s]
               empty == ExistingReviews(call.id, call.auth) = {}
           IN  /\ calls' = [calls EXCEPT ![s] =
                       [fn |-> "addReview.addDoc", auth |-> call.auth,
                        id |-> call.id, rating |-> call.rating,
                        comment |-> call.comment, empty |-> empty]]
        /\ UNCHANGED <<users, properties, bookingInterests, enrollments, now,
                       userOrigin, propertyOrigin, last, reviews, reviewOrigin,
                       storage, propertyImages>>

\* if (!existingReviewsSnap.empty) throw ...; await addDoc(reviewsCollection,
\* reviewDataForFirestore)
AddReviewAddDoc ==
    \E s \in Sessions, date \in ClientTimes, reviewId \in ReviewIds :
        /\ calls[s].fn = "addReview.addDoc"
        /\ ~reviews[reviewId].exists
        /\ LET call == calls[s]
               data == [propertyId |-> Str(call.id), studentId |-> Str(call.auth),
                        studentName |-> Get(users[call.auth].data, "name"),
                        rating |-> Num(call.rating), comment |-> Str(call.comment),
                        date |-> Ts(date)]
               empty == call.empty
               ok == empty /\ reviewsAllowCreate(call.auth, now, data)
           IN  /\ reviews' = IF ok THEN [reviews EXCEPT ![reviewId] = Stored(data)]
                                   ELSE reviews
               /\ reviewOrigin' = IF ok THEN [reviewOrigin EXCEPT
                                                  ![reviewId] = Str(call.auth)]
                                        ELSE reviewOrigin
               /\ last' = IF ok THEN Write("reviews.create", call.auth, reviewId)
                                ELSE last
               /\ calls' = [calls EXCEPT ![s] =
                       IF ok THEN [fn |-> "addReview.getReviews", auth |-> call.auth,
                                   id |-> call.id, docId |-> reviewId]
                       ELSE IF empty THEN [fn |-> "addReview.denied",
                                           auth |-> call.auth, id |-> call.id]
                       ELSE [fn |-> "addReview.alreadyReviewed",
                             auth |-> call.auth, id |-> call.id]]
        /\ UNCHANGED <<users, properties, bookingInterests, enrollments, now,
                       userOrigin, propertyOrigin, storage, propertyImages>>

\* const allReviewsForProperty = await getReviewsForProperty(propertyId)
AddReviewAverage ==
    \E s \in Sessions :
        /\ calls[s].fn = "addReview.getReviews"
        /\ LET call == calls[s]
               all == ReviewsOfProperty(call.id)
           IN  calls' = [calls EXCEPT ![s] =
                   [fn |-> "addReview.updateDoc", auth |-> call.auth,
                    id |-> call.id, docId |-> call.docId,
                    newAverageRating |->
                        NewAverageRating(TotalRating(all), Cardinality(all))]]
        /\ UNCHANGED <<users, properties, bookingInterests, enrollments, now,
                       userOrigin, propertyOrigin, last, reviews, reviewOrigin,
                       storage, propertyImages>>

\* await updateDoc(propertyRef, { averageRating, updatedAt: Timestamp.now() });
\* const newReviewDoc = await getDoc(docRef)
AddReviewUpdateDoc ==
    \E s \in Sessions, updated \in ClientTimes :
        /\ calls[s].fn = "addReview.updateDoc"
        /\ LET call == calls[s]
               resource == properties[call.id]
               data == Merge(resource.data,
                             With(Only("averageRating", Num(call.newAverageRating)),
                                  "updatedAt", Ts(updated)))
               ok == /\ resource.exists
                     /\ propertiesAllowUpdate(call.auth, now, call.id, data, resource)
           IN  /\ properties' = IF ok THEN [properties EXCEPT ![call.id] = Stored(data)]
                                      ELSE properties
               /\ last' = IF ok THEN Write("properties.update", call.auth, call.id)
                                ELSE last
               /\ calls' = [calls EXCEPT ![s] =
                       [fn |-> IF ok /\ reviews[call.docId].exists
                               THEN "addReview.returned" ELSE "addReview.failed",
                        auth |-> call.auth, id |-> call.id]]
        /\ UNCHANGED <<users, bookingInterests, enrollments, now, userOrigin,
                       propertyOrigin, reviews, reviewOrigin, storage,
                       propertyImages>>

\* The toast is shown and the page is left
ReviewFormClose ==
    \E s \in Sessions :
        /\ calls[s].fn \in {"addReview.returned", "addReview.failed",
                            "addReview.denied", "addReview.alreadyReviewed"}
        /\ calls' = [calls EXCEPT ![s] = Idle]
        /\ UNCHANGED <<users, properties, bookingInterests, enrollments, now,
                       userOrigin, propertyOrigin, last, reviews, reviewOrigin,
                       storage, propertyImages>>

NextAddReview ==
    \/ UsersCreateBasic
    \/ PropertiesCreateBasic
    \/ ReviewFormRender
    \/ HandleSubmit
    \/ AddReviewQuery
    \/ AddReviewAddDoc
    \/ AddReviewAverage
    \/ AddReviewUpdateDoc
    \/ ReviewFormClose
    \/ Tick

SpecAddReview == Init /\ [][NextAddReview]_vars

-----------------------------------------------------------------------------
(* storage.rules: match /profilePictures/{userId}/{allPaths=**} *)

MaxProfilePictureSize == 2 * 1024 * 1024

\* request.resource of an upload
File(size, contentType) ==
    [exists |-> TRUE, size |-> size, contentType |-> contentType]

\* contentType.matches('image/.*'): the whole string matches
MatchesImage(contentType) ==
    /\ Len(contentType) >= 6
    /\ SubSeq(contentType, 1, 6) = "image/"

profilePicturesAllowRead == TRUE

\* request.resource is null in a delete: reading its size is an error
profilePicturesAllowWrite(auth, userId, resource) ==
    /\ auth # Anon
    /\ auth = userId
    /\ resource.exists
    /\ resource.size < MaxProfilePictureSize
    /\ MatchesImage(resource.contentType)

FileSizes ==
    {0, MaxProfilePictureSize - 1, MaxProfilePictureSize, MaxProfilePictureSize + 1}

ContentTypes == {"image/png", "image/", "application/pdf", "text/image/png"}

\* uploadBytes to profilePictures/{userId}/...
ProfilePictureUpload ==
    \E auth \in Requesters, userId \in Uids, size \in FileSizes,
       contentType \in ContentTypes :
        LET resource == File(size, contentType)
            ok == profilePicturesAllowWrite(auth, userId, resource)
        IN  /\ storage' = IF ok THEN [storage EXCEPT ![userId] = resource] ELSE storage
            /\ last' = IF ok THEN Write("profilePictures.write", auth, userId) ELSE last
            /\ UNCHANGED <<users, properties, bookingInterests, enrollments, now,
                           userOrigin, propertyOrigin, reviews, reviewOrigin, calls,
                           propertyImages>>

\* deleteObject on profilePictures/{userId}/...
ProfilePictureDelete ==
    \E auth \in Requesters, userId \in Uids :
        LET ok == profilePicturesAllowWrite(auth, userId, NoFile)
        IN  /\ storage[userId].exists
            /\ storage' = IF ok THEN [storage EXCEPT ![userId] = NoFile] ELSE storage
            /\ last' = IF ok THEN Write("profilePictures.delete", auth, userId) ELSE last
            /\ UNCHANGED <<users, properties, bookingInterests, enrollments, now,
                           userOrigin, propertyOrigin, reviews, reviewOrigin, calls,
                           propertyImages>>

\* getDownloadURL / a fetch of profilePictures/{userId}/...
ProfilePictureRead ==
    \E auth \in Requesters, userId \in Uids :
        /\ storage[userId].exists
        /\ profilePicturesAllowRead
        /\ last' = Write("profilePictures.read", auth, userId)
        /\ UNCHANGED <<users, properties, bookingInterests, enrollments, now,
                       userOrigin, propertyOrigin, reviews, reviewOrigin, calls,
                       storage, propertyImages>>

NextStorage ==
    \/ ProfilePictureUpload
    \/ ProfilePictureDelete
    \/ ProfilePictureRead

SpecStorage == Init /\ [][NextStorage]_vars

-----------------------------------------------------------------------------
(* uploadFileToStorage and the image uploads of addProperty, against
   storage.rules: match /propertyImages/{landlordId}/{propertyId}/{allPaths=**} *)

MaxPropertyImageSize == 5 * 1024 * 1024

\* s.includes(c) for one character c
Includes(s, c) == \E i \in 1..Len(s) : SubSeq(s, i, i) = c

\* s.split(sep) for a separator of one character
RECURSIVE Split(_, _)
Split(s, sep) ==
    IF Includes(s, sep)
    THEN LET i == CHOOSE i \in 1..Len(s) :
                      /\ SubSeq(s, i, i) = sep
                      /\ \A j \in 1..(i - 1) : SubSeq(s, j, j) # sep
         IN  <<SubSeq(s, 1, i - 1)>> \o Split(SubSeq(s, i + 1, Len(s)), sep)
    ELSE <<s>>

\* file.name.split('.').pop() || 'bin'
FileExtension(name) ==
    LET parts == Split(name, ".")
        popped == parts[Len(parts)]
    IN  IF popped = "" THEN "bin" ELSE popped

\* uuidv4(): a string no other call of uuidv4 returns, named here by the
\* call of addProperty and the purpose of the id
uuidv4(call, purpose) == call \o "-" \o purpose

\* `${path}/${fileId}.${fileExtension}`
FullPath(path, fileId, name) ==
    path \o "/" \o fileId \o "." \o FileExtension(name)

\* ref(storage, fullPath): the object named by the full path
StorageRefFullPath(path, fileId, name) == FullPath(path, fileId, name)

\* ref(storage, fullPath.includes('.') ? path : fullPath): the object
\* uploadBytes writes
StorageRef(path, fileId, name) ==
    IF Includes(FullPath(path, fileId, name), ".")
    THEN path
    ELSE FullPath(path, fileId, name)

\* getDownloadURL(snapshot.ref)
DownloadURL(objectPath) == "https://firebasestorage.googleapis.com/o/" \o objectPath

\* The stored object of an uploaded File: its bytes are named by the file
UploadedObject(f) ==
    [exists |-> TRUE, size |-> f.size, contentType |-> f.type, bytes |-> f.name]

propertyImagesAllowWrite(auth, objectPath, resource) ==
    LET segments == Split(objectPath, "/")
    IN  /\ Len(segments) >= 3
        /\ segments[1] = "propertyImages"
        /\ auth # Anon
        /\ auth = segments[2]
        /\ resource.exists
        /\ resource.size < MaxPropertyImageSize
        /\ MatchesImage(resource.contentType)

\* The image files of the property form: two images, and one above the
\* size limit whose name has no extension
ImageInputs ==
    <<[name |-> "front.png", size |-> 1, type |-> "image/png"],
      [name |-> "room.jpg", size |-> 2, type |-> "image/jpeg"],
      [name |-> "scan", size |-> MaxPropertyImageSize, type |-> "image/png"]>>

\* `propertyImages/${landlord.uid}/${tempPropertyId}`
PropertyImagesPath(landlord, tempPropertyId) ==
    "propertyImages/" \o landlord \o "/" \o tempPropertyId

\* The sessions that call addProperty: tempPropertyId keeps the paths of
\* different calls apart, the uploads that share a path are those of one call
AddPropertySessions == {"s1"}

\* The calls of addProperty
AddPropertyCalls == {"c1", "c2"}

\* No earlier call has drawn the same tempPropertyId
FreshCall(call) ==
    \A objectPath \in DOMAIN propertyImages :
        Split(objectPath, "/")[3] # uuidv4(call, "property")

\* addProperty: the landlord's details are checked and tempPropertyId drawn
AddPropertyStart ==
    \E s \in AddPropertySessions, landlord \in Uids, call \in AddPropertyCalls,
       images \in SUBSET DOMAIN ImageInputs :
        /\ calls[s].fn = "idle"
        /\ users[landlord].exists
        /\ FreshCall(call)
        /\ calls' = [calls EXCEPT ![s] =
               [fn |-> "addProperty", landlord |-> landlord, call |-> call,
                tempPropertyId |-> uuidv4(call, "property"),
                pending |-> images, uploaded |-> {}]]
        /\ UNCHANGED <<users, properties, bookingInterests, enrollments, now,
                       userOrigin, propertyOrigin, last, reviews, reviewOrigin,
                       storage, propertyImages>>

\* addProperty: one of the uploads of Promise.all, uploadFileToStorage run
\* to its end; a failed upload yields null
AddPropertyUpload ==
    \E s \in AddPropertySessions :
        /\ calls[s].fn = "addProperty"
        /\ \E i \in calls[s].pending :
               LET c == calls[s]
                   f == ImageInputs[i]
                   objectPath == StorageRef(
                       PropertyImagesPath(c.landlord, c.tempPropertyId),
                       uuidv4(c.call, f.name), f.name)
                   ok == propertyImagesAllowWrite(c.landlord, objectPath,
                                                  UploadedObject(f))
               IN  /\ propertyImages' =
                          IF ok
                          THEN [p \in DOMAIN propertyImages \cup {objectPath} |->
                                   IF p = objectPath THEN UploadedObject(f)
                                                     ELSE propertyImages[p]]
                          ELSE propertyImages
                   /\ calls' = [calls EXCEPT ![s] =
                          [c EXCEPT !.pending = @ \ {i},
                                    !.uploaded = IF ok
                                        THEN @ \cup {[image |-> i,
                                                      url |-> DownloadURL(objectPath)]}
                                        ELSE @]]
                   /\ last' = IF ok THEN Write("propertyImages.write", c.landlord,
                                               c.tempPropertyId)
                                    ELSE last
        /\ UNCHANGED <<users, properties, bookingInterests, enrollments, now,
                       userOrigin, propertyOrigin, reviews, reviewOrigin, storage>>

\* validImages, in the order of the form
ValidImages(uploaded) ==
    LET urlOf(i) == (CHOOSE u \in uploaded : u.image = i).url
        kept == SelectSeq([i \in DOMAIN ImageInputs |-> i],
                          LAMBDA i : \E u \in uploaded : u.image = i)
    IN  [k \in DOMAIN kept |-> Str(urlOf(kept[k]))]

\* addProperty: addDoc of the property with the uploaded images or the
\* placeholder, createdAt and updatedAt from Timestamp.now()
AddPropertyAddDoc ==
    \E s \in AddPropertySessions, propertyId \in PropertyIds, time \in ClientTimes :
        /\ calls[s].fn = "addProperty"
        /\ calls[s].pending = {}
        /\ ~properties[propertyId].exists
        /\ LET c == calls[s]
               images == IF c.uploaded # {}
                         THEN ValidImages(c.uploaded)
                         ELSE <<Str("https://placehold.co/600x400.png")>>
               data == With(BaseProperty(c.landlord, time), "images", List(images))
               ok == propertiesAllowCreate(c.landlord, now, data)
           IN  /\ properties' = IF ok
                                THEN [properties EXCEPT ![propertyId] = Stored(data)]
                                ELSE properties
               /\ propertyOrigin' = IF ok
                                    THEN [propertyOrigin EXCEPT
                                             ![propertyId] = PropertyOrigin(data)]
                                    ELSE propertyOrigin
               /\ last' = IF ok THEN Write("properties.create", c.landlord, propertyId)
                                ELSE last
        /\ calls' = [calls EXCEPT ![s] = Idle]
        /\ UNCHANGED <<users, bookingInterests, enrollments, now, userOrigin,
                       reviews, reviewOrigin, storage, propertyImages>>

NextAddProperty ==
    \/ UsersCreateBasic
    \/ AddPropertyStart
    \/ AddPropertyUpload
    \/ AddPropertyAddDoc
    \/ PropertiesDelete
    \/ Tick

SpecAddProperty == Init /\ [][NextAddProperty]_vars

-----------------------------------------------------------------------------
(* AuthContext: signup and the onAuthStateChanged listener of one browser
   session.  createUserWithEmailAndPassword signs the new account in, which
   starts the listener while signup goes on with its uploads and its setDoc. *)

SignupFiles ==
    {<<>>, <<"profilePictureFile">>,
     <<"profilePictureFile", "nationalIdFile", "studentIdFile">>}

PictureSizes == {0, MaxProfilePictureSize}

\* The files signup uploads for the role, in the order of its awaits
UploadsOf(files, role) ==
    SelectSeq(files, LAMBDA f : f = "profilePictureFile" \/ role = "student")

UrlKey(f) ==
    CASE f = "profilePictureFile" -> "profilePictureUrl"
      [] f = "nationalIdFile" -> "nationalIdPhotoUrl"
      [] f = "studentIdFile" -> "studentIdPhotoUrl"

\* cleanProfileData: the defined fields of newUserProfileData
CleanProfileData(uid, role, urls) ==
    LET withUrls == Merge(BaseUser(uid, role), [k \in urls |-> Str("url")])
    IN  IF role = "student" THEN With(withUrls, "savedPropertyIds", List(<<>>))
        ELSE withUrls

\* The account is new to the auth service and to this browser
NewAccount(uid) ==
    /\ ~users[uid].exists
    /\ \A t \in Sessions : calls[t].fn = "AuthProvider" => calls[t].uid # uid

\* setIsLoading(true); await createUserWithEmailAndPassword(auth, email, pass)
SignupStart ==
    \E s \in Sessions, uid \in Uids, role \in Roles, files \in SignupFiles,
       size \in PictureSizes :
        /\ calls[s].fn = "idle"
        /\ NewAccount(uid)
        /\ calls' = [calls EXCEPT ![s] =
               [fn |-> "AuthProvider", uid |-> uid, role |-> role,
                pending |-> UploadsOf(files, role), size |-> size, urls |-> {},
                signup |-> "running", listener |-> "getDoc",
                user |-> Undef, isLoading |-> TRUE]]
        /\ UNCHANGED <<users, properties, bookingInterests, enrollments, now,
                       userOrigin, propertyOrigin, last, reviews, reviewOrigin,
                       storage, propertyImages>>

\* await uploadFileToStorage(file, path); a rejected upload throws and
\* signup returns false from its catch branch
SignupUpload ==
    \E s \in Sessions :
        /\ calls[s].fn = "AuthProvider"
        /\ calls[s].signup = "running"
        /\ calls[s].pending # <<>>
        /\ LET c == calls[s]
               f == Head(c.pending)
               resource == File(c.size, "image/png")
               ok == f = "profilePictureFile"
                         => profilePicturesAllowWrite(c.uid, c.uid, resource)
           IN  /\ storage' = IF ok /\ f = "profilePictureFile"
                             THEN [storage EXCEPT ![c.uid] = resource]
                             ELSE storage
               /\ calls' = [calls EXCEPT ![s] =
                       IF ok THEN [c EXCEPT !.pending = Tail(c.pending),
                                            !.urls = c.urls \cup {UrlKey(f)}]
                       ELSE [c EXCEPT !.signup = "false", !.isLoading = FALSE]]
        /\ UNCHANGED <<users, properties, bookingInterests, enrollments, now,
                       userOrigin, propertyOrigin, last, reviews, reviewOrigin,
                       propertyImages>>

\* await setDoc(doc(db, "users", userId), cleanProfileData); return true
SignupSetDoc ==
    \E s \in Sessions :
        /\ calls[s].fn = "AuthProvider"
        /\ calls[s].signup = "running"
        /\ calls[s].pending = <<>>
        /\ LET c == calls[s]
               data == CleanProfileData(c.uid, c.role, c.urls)
               ok == usersAllowCreate(c.uid, c.uid, data)
           IN  /\ users' = IF ok THEN [users EXCEPT ![c.uid] = Stored(data)] ELSE users
               /\ userOrigin' = IF ok THEN [userOrigin EXCEPT ![c.uid] = Origin(data)]
                                      ELSE userOrigin
               /\ last' = IF ok THEN Write("users.create", c.uid, c.uid) ELSE last
               /\ calls' = [calls EXCEPT ![s] =
                       IF ok THEN [c EXCEPT !.signup = "true"]
                       ELSE [c EXCEPT !.signup = "false", !.isLoading = FALSE]]
        /\ UNCHANGED <<properties, bookingInterests, enrollments, now,
                       propertyOrigin, reviews, reviewOrigin, storage,
                       propertyImages>>

\* The listener's setUser / setIsLoading(false) after a read that decides
ListenerSettled(c, userDocSnap) ==
    [c EXCEPT !.listener = "done",
              !.user = IF userDocSnap.exists
                       THEN mapFirestoreDocToUser(c.uid, userDocSnap.data)
                       ELSE Undef,
              !.isLoading = FALSE]

\* let userDocSnap = await getDoc(userDocRef)
ListenerGetDoc ==
    \E s \in Sessions :
        /\ calls[s].fn = "AuthProvider"
        /\ calls[s].listener = "getDoc"
        /\ LET c == calls[s]
               userDocSnap == IF usersAllowRead(c.uid, c.uid) THEN users[c.uid]
                              ELSE Missing
           IN  calls' = [calls EXCEPT ![s] =
                   IF userDocSnap.exists THEN ListenerSettled(c, userDocSnap)
                   ELSE [c EXCEPT !.listener = "setTimeout"]]
        /\ UNCHANGED <<users, properties, bookingInterests, enrollments, now,
                       userOrigin, propertyOrigin, last, reviews, reviewOrigin,
                       storage, propertyImages>>

\* await new Promise(resolve => setTimeout(resolve, 2000));
\* userDocSnap = await getDoc(userDocRef)
ListenerRetry ==
    \E s \in Sessions :
        /\ calls[s].fn = "AuthProvider"
        /\ calls[s].listener = "setTimeout"
        /\ LET c == calls[s]
               userDocSnap == IF usersAllowRead(c.uid, c.uid) THEN users[c.uid]
                              ELSE Missing
           IN  calls' = [calls EXCEPT ![s] = ListenerSettled(c, userDocSnap)]
        /\ UNCHANGED <<users, properties, bookingInterests, enrollments, now,
                       userOrigin, propertyOrigin, last, reviews, reviewOrigin,
                       storage, propertyImages>>

NextSignup ==
    \/ SignupStart
    \/ SignupUpload
    \/ SignupSetDoc
    \/ ListenerGetDoc
    \/ ListenerRetry

SpecSignup == Init /\ [][NextSignup]_vars

\* Every await of signup and of the listener resolves
SpecSignupFair ==
    /\ SpecSignup
    /\ WF_vars(SignupUpload)
    /\ WF_vars(SignupSetDoc)
    /\ WF_vars(ListenerGetDoc)
    /\ WF_vars(ListenerRetry)

-----------------------------------------------------------------------------
(* Properties of /properties *)

\* request.resource.data of the update `patch` of property p
Proposed(p, patch) == Merge(properties[p].data, patch)

PropertyUpdateAllowed(auth, p, patch) ==
    propertiesAllowUpdate(auth, now, p, Proposed(p, patch), properties[p])

\* The fields that differ between the stored and the proposed document
Changed(p, patch) == AffectedKeys(Proposed(p, patch), properties[p].data)

\* The four single-counter shapes of the update rule
CounterShapes ==
    {{"viewCount", "updatedAt"}, {"averageRating", "updatedAt"},
     {"interestedCount", "updatedAt"}, {"enrolledStudentsCount", "updatedAt"}}

IsLandlordEdit(auth, p, patch) ==
    LandlordEditCase(auth, p, Proposed(p, patch), properties[p])

IsOwner(auth, p) == Get(properties[p].data, "landlordId") = Str(auth)

C5_PlusTwoDenied ==
    \A p \in PropertyIds, auth \in Uids :
        properties[p].exists /\ isPropertyOwner(auth, p) =>
            LET d == properties[p].data
                patch == With(Only("enrolledStudentsCount",
                                   Plus(Get(d, "enrolledStudentsCount"), 2)),
                              "updatedAt", Ts(now))
            IN  ~PropertyUpdateAllowed(auth, p, patch)

\* C6: a property create by an account whose role is student is denied,
\* whatever the payload (the well-formed one included).
C6_StudentCannotCreate ==
    \A auth \in Uids :
        hasRole(auth, "student") =>
            \A landlord \in Uids :
                \A defect \in {EmptyDoc} \cup PropertyDefects(landlord, now) :
                    ~propertiesAllowCreate(auth, now,
                        PropertyCreatePayload(landlord, now, defect))

\* A student is signed up, no property is stored, and the student's payload
\* passes every field check of the create rule.
C6_Witness ==
    \E auth \in Uids, p \in PropertyIds :
        /\ hasRole(auth, "student")
        /\ ~properties[p].exists
        /\ isValidPropertyDataForCreate(auth, now, BaseProperty(auth, now))
        /\ \E other \in Uids : hasRole(other, "landlord")

\* C7: a stored property has the landlordId and createdAt it was created
\* with, whoever updated it since.
C7_LandlordIdCreatedAtImmutable ==
    \A p \in PropertyIds :
        properties[p].exists =>
            PropertyOrigin(properties[p].data) = propertyOrigin[p]

\* The property was updated after the instant it was created, the last time
\* by someone other than its owner.
C7_Witness ==
    /\ last.op = "properties.update"
    /\ properties[last.id].exists
    /\ ~IsOwner(last.auth, last.id)
    /\ Get(properties[last.id].data, "updatedAt") # Get(properties[last.id].data, "createdAt")
    /\ Get(properties[last.id].data, "averageRating") # Num(0)

Step(old, new, k) ==
    Get(old, k) = Get(new, k) \/ EqPlus(Get(new, k), Get(old, k), 1)
        \/ EqPlus(Get(new, k), Get(old, k), 0 - 1)

StepsOnly(keys) ==
    \A p \in PropertyIds :
        properties[p].exists =>
            \A auth \in Requesters, patch \in PropertyPatches(properties[p].data, now) :
                PropertyUpdateAllowed(auth, p, patch) /\ ~IsLandlordEdit(auth, p, patch) =>
                    \A k \in keys : Step(properties[p].data, Proposed(p, patch), k)

\* C8 as claimed: an allowed update that is not a landlord edit leaves each
\* of viewCount, interestedCount, enrolledStudentsCount and averageRating
\* as it is or changes it by exactly 1.
C8_AllCountersStep == StepsOnly(CounterKeys \cup {"averageRating"})

\* C8 as amended: the same of viewCount, interestedCount and
\* enrolledStudentsCount; averageRating may be set to any number.
C8_CountersStep == StepsOnly(CounterKeys)

\* The last write was an allowed update by a student that was no landlord
\* edit, and the counters it may touch have moved.
C8_Witness ==
    /\ last.op = "properties.update"
    /\ properties[last.id].exists
    /\ hasRole(last.auth, "student")
    /\ CounterOf(properties[last.id].data, "interestedCount") > 0
    /\ CounterOf(properties[last.id].data, "viewCount") > 0

\* The disjuncts of the property update rule that hold of a request
CasesTrue(auth, p, patch) ==
    LET data == Proposed(p, patch)
        resource == properties[p]
    IN  {c \in {"landlordEdit", "viewCount", "averageRating", "interestedCount",
                "enrolledStudentsCount"} :
            \/ c = "landlordEdit" /\ LandlordEditCase(auth, p, data, resource)
            \/ c = "viewCount" /\ ViewCountCase(data, resource)
            \/ c = "averageRating" /\ AverageRatingCase(auth, data, resource)
            \/ c = "interestedCount" /\ InterestedCountCase(auth, data, resource)
            \/ c = "enrolledStudentsCount"
                   /\ EnrolledCountCase(auth, p, data, resource)}

\* C15 as claimed: at most one of the five disjuncts of the property update
\* rule holds of a request.
C15_FiveCasesExclusive ==
    \A p \in PropertyIds :
        properties[p].exists =>
            \A auth \in Requesters, patch \in PropertyPatches(properties[p].data, now) :
                Cardinality(CasesTrue(auth, p, patch)) <= 1

\* C15 as amended: at most one of the four counter disjuncts (viewCount,
\* averageRating, interestedCount, enrolledStudentsCount) holds of a
\* request; the landlord edit holds together with the viewCount or the
\* enrolledStudentsCount disjunct when the owner sends such an update, and
\* with no other.
C15_CounterCasesExclusive ==
    \A p \in PropertyIds :
        properties[p].exists =>
            \A auth \in Requesters, patch \in PropertyPatches(properties[p].data, now) :
                LET cases == CasesTrue(auth, p, patch)
                IN  /\ Cardinality(cases \ {"landlordEdit"}) <= 1
                    /\ "landlordEdit" \in cases =>
                           cases \subseteq {"landlordEdit", "viewCount",
                                            "enrolledStudentsCount"}

\* A property with an owner and a student at hand: the owner's increment of
\* enrolledStudentsCount passes two disjuncts, the student's rating update
\* one.
C15_Witness ==
    \E p \in PropertyIds :
        /\ properties[p].exists
        /\ \E auth \in Uids, patch \in PropertyPatches(properties[p].data, now) :
               CasesTrue(auth, p, patch) = {"landlordEdit", "enrolledStudentsCount"}
        /\ \E auth \in Uids, patch \in PropertyPatches(properties[p].data, now) :
               /\ "averageRating" \in Changed(p, patch)
               /\ CasesTrue(auth, p, patch) = {"averageRating"}

-----------------------------------------------------------------------------
(* Properties of /users *)

StudentFields == StudentOnlyKeys \cup {"savedPropertyIds"}

IsLandlordDoc(d) == Get(d, "role") = Str("landlord")

\* C2: a stored user document has the role, uid and email it was created
\* with, and every update request that would change one of the three is
\* denied, whoever sends it (the owning user included).
C2_RoleUidEmailImmutable ==
    \A userId \in Uids :
        users[userId].exists =>
            /\ Origin(users[userId].data) = userOrigin[userId]
            /\ \A auth \in Requesters, patch \in UserPatches(userId) :
                   LET data == Merge(users[userId].data, patch)
                   IN  Origin(data) # Origin(users[userId].data)
                           => ~usersAllowUpdate(auth, userId, data, users[userId])

\* An owning user's update went through, the stored document differs from
\* the profile signup wrote, and a request to change the role is at hand.
C2_Witness ==
    /\ last.op = "users.update"
    /\ last.auth = last.id
    /\ \E role \in {"student", "landlord"} :
           /\ Origin(users[last.id].data) = Origin(BaseUser(last.id, role))
           /\ users[last.id].data # BaseUser(last.id, role)
    /\ \E patch \in UserPatches(last.id) :
           Get(patch, "role") \notin {Undef, Get(users[last.id].data, "role")}

\* C9: a stored landlord document carries no student-only field, and every
\* create or update that would put one on a landlord document is denied.
C9_LandlordHasNoStudentFields ==
    \A userId \in Uids :
        /\ users[userId].exists /\ IsLandlordDoc(users[userId].data)
               => /\ DOMAIN users[userId].data \cap StudentFields = {}
                  /\ \A auth \in Requesters, patch \in UserPatches(userId) :
                         LET data == Merge(users[userId].data, patch)
                         IN  DOMAIN data \cap StudentFields # {}
                                 => ~usersAllowUpdate(auth, userId, data, users[userId])
        /\ ~users[userId].exists
               => \A auth \in Requesters, variant \in SignupVariants(userId) :
                      LET data == SignupPayload(userId, "landlord", variant)
                      IN  IsLandlordDoc(data) /\ DOMAIN data \cap StudentFields # {}
                              => ~usersAllowCreate(auth, userId, data)

\* A landlord's own profile update was allowed, and a student account holds
\* student-only fields (so the fields are storable at all).
C9_Witness ==
    /\ last.op = "users.update"
    /\ IsLandlordDoc(users[last.id].data)
    /\ "profilePictureUrl" \in DOMAIN users[last.id].data
    /\ \E s \in Uids : users[s].exists /\ DOMAIN users[s].data \cap StudentOnlyKeys # {}

-----------------------------------------------------------------------------
(* Properties of /bookingInterests *)

InterestProposed(i, patch) == Merge(bookingInterests[i].data, patch)

InterestUpdateAllowed(auth, i, patch) ==
    bookingInterestsAllowUpdate(auth, now, InterestProposed(i, patch),
                                bookingInterests[i])

InterestChanged(i, patch) ==
    AffectedKeys(InterestProposed(i, patch), bookingInterests[i].data)

IsInterestStudent(auth, i) == Get(bookingInterests[i].data, "studentId") = Str(auth)

StoredStatus(i) == Get(bookingInterests[i].data, "status")

Archives(i, patch) == Get(InterestProposed(i, patch), "status") = Str("archived")

\* The landlord of the property the interest refers to
IsInterestLandlord(auth, i) ==
    LET propertyDoc == ReferencedProperty(bookingInterests[i])
    IN  /\ hasRole(auth, "landlord")
        /\ propertyDoc.exists
        /\ Get(propertyDoc.data, "landlordId") = Str(auth)

\* The student's archive request is denied while the stored status is accepted
ArchiveOfAcceptedDenied ==
    \A i \in InterestIds, auth \in Uids :
        bookingInterests[i].exists /\ IsInterestStudent(auth, i)
                /\ StoredStatus(i) = Str("accepted") =>
            \A patch \in InterestPatches(bookingInterests[i].data, now) :
                Archives(i, patch) => ~InterestUpdateAllowed(auth, i, patch)

\* C3 as claimed: the student's archive request is denied while the stored
\* status is accepted, and allowed while it is pending whenever status and
\* updatedAt are the fields that change.
C3_ArchiveByStudent ==
    /\ ArchiveOfAcceptedDenied
    /\ \A i \in InterestIds, auth \in Uids :
           bookingInterests[i].exists /\ IsInterestStudent(auth, i)
                   /\ StoredStatus(i) = Str("pending") =>
               \A patch \in InterestPatches(bookingInterests[i].data, now) :
                   Archives(i, patch)
                           /\ InterestChanged(i, patch) = {"status", "updatedAt"}
                       => InterestUpdateAllowed(auth, i, patch)

\* C3 as amended: the same, the pending archive being allowed when moreover
\* the new updatedAt is the time of the request.
C3_ArchiveByStudentAtRequestTime ==
    /\ ArchiveOfAcceptedDenied
    /\ \A i \in InterestIds, auth \in Uids :
           bookingInterests[i].exists /\ IsInterestStudent(auth, i)
                   /\ StoredStatus(i) = Str("pending") =>
               \A patch \in InterestPatches(bookingInterests[i].data, now) :
                   Archives(i, patch)
                           /\ InterestChanged(i, patch) \subseteq {"status", "updatedAt"}
                           /\ Get(InterestProposed(i, patch), "updatedAt") = Ts(now)
                       => InterestUpdateAllowed(auth, i, patch)

\* The landlord has accepted the interest and the student's stamped archive
\* request is at hand.
C3_Witness ==
    /\ last.op = "bookingInterests.update"
    /\ bookingInterests[last.id].exists
    /\ IsInterestLandlord(last.auth, last.id)
    /\ StoredStatus(last.id) = Str("accepted")
    /\ \E auth \in Uids :
           /\ IsInterestStudent(auth, last.id)
           /\ ~InterestUpdateAllowed(auth, last.id,
                   Stamp(Only("status", Str("archived")), now))

-----------------------------------------------------------------------------
(* Properties of /enrollments *)

EnrollmentProposed(e, patch) == Merge(enrollments[e].data, patch)

EnrollmentUpdateAllowed(auth, e, patch) ==
    enrollmentsAllowUpdate(auth, now, EnrollmentProposed(e, patch), enrollments[e])

IsEnrollmentStudent(auth, e) == Get(enrollments[e].data, "studentId") = Str(auth)

IsEnrollmentLandlord(auth, e) == Get(enrollments[e].data, "landlordId") = Str(auth)

StoredActive(e) == Get(enrollments[e].data, "isActive")

\* The request sets isActive to true, or is made while isActive is false
AgainstCheckout(e, patch) ==
    \/ Get(patch, "isActive") = Bool(TRUE)
    \/ StoredActive(e) = Bool(FALSE)

\* C4 as claimed: a request of the enrollment's student that sets isActive
\* to true, or that is made while the stored isActive is false, is denied.
C4_StudentOnlyDeactivates ==
    \A e \in EnrollmentIds, auth \in Uids :
        enrollments[e].exists /\ IsEnrollmentStudent(auth, e) =>
            \A patch \in EnrollmentPatches(enrollments[e].data, now) :
                AgainstCheckout(e, patch) => ~EnrollmentUpdateAllowed(auth, e, patch)

\* C4 as amended: such a request is denied unless the enrollment's student
\* is also its landlord and changes schedule fields only; and no allowed
\* update, whoever makes it, changes isActive from false to true.
C4_StudentPathOnlyDeactivates ==
    \A e \in EnrollmentIds :
        enrollments[e].exists =>
            \A auth \in Requesters :
                \A patch \in EnrollmentPatches(enrollments[e].data, now) :
                    /\ IsEnrollmentStudent(auth, e) /\ AgainstCheckout(e, patch)
                           /\ EnrollmentUpdateAllowed(auth, e, patch)
                         => /\ IsEnrollmentLandlord(auth, e)
                            /\ hasRole(auth, "landlord")
                            /\ AffectedKeys(EnrollmentProposed(e, patch),
                                            enrollments[e].data) \subseteq ScheduleKeys
                    /\ EnrollmentUpdateAllowed(auth, e, patch)
                           /\ StoredActive(e) = Bool(FALSE)
                         => Get(EnrollmentProposed(e, patch), "isActive") = Bool(FALSE)

\* A student who is not the landlord has checked out, and the requests to
\* reactivate and to check out again are at hand.
C4_Witness ==
    /\ last.op = "enrollments.update"
    /\ enrollments[last.id].exists
    /\ IsEnrollmentStudent(last.auth, last.id)
    /\ hasRole(last.auth, "student")
    /\ StoredActive(last.id) = Bool(FALSE)
    /\ \E patch \in EnrollmentPatches(enrollments[last.id].data, now) :
           /\ Get(patch, "isActive") = Bool(TRUE)
           /\ ~EnrollmentUpdateAllowed(last.auth, last.id, patch)

EnrollmentChanged(e, patch) ==
    AffectedKeys(EnrollmentProposed(e, patch), enrollments[e].data)

CheckoutKeys == {"isActive", "actualCheckoutDate"}

\* C11 as claimed: an allowed update by the enrollment's landlord changes
\* schedule fields only, an allowed update by its student changes only
\* isActive and actualCheckoutDate, the latter to the request time, and no
\* allowed update changes fields of both groups.
C11_PathsByRequester ==
    \A e \in EnrollmentIds :
        enrollments[e].exists =>
            \A auth \in Requesters :
                \A patch \in EnrollmentPatches(enrollments[e].data, now) :
                    EnrollmentUpdateAllowed(auth, e, patch) =>
                        /\ IsEnrollmentLandlord(auth, e) =>
                               EnrollmentChanged(e, patch) \subseteq ScheduleKeys
                        /\ IsEnrollmentStudent(auth, e) =>
                               /\ EnrollmentChanged(e, patch) \subseteq CheckoutKeys
                               /\ Get(EnrollmentProposed(e, patch), "actualCheckoutDate")
                                      = Ts(now)
                        /\ ~(/\ EnrollmentChanged(e, patch) \cap ScheduleKeys # {}
                             /\ EnrollmentChanged(e, patch) \cap CheckoutKeys # {})

\* C11 as amended: an allowed update passes exactly one branch of the rule;
\* through the landlord branch it comes from the enrollment's landlord and
\* changes schedule fields only, through the student branch it comes from
\* the enrollment's student and changes only isActive and
\* actualCheckoutDate, the latter to the request time; so the landlord who
\* is not the student never changes isActive or actualCheckoutDate, the
\* student who is not the landlord never changes a schedule field, and no
\* allowed update changes fields of both groups.
C11_PathsByBranch ==
    \A e \in EnrollmentIds :
        enrollments[e].exists =>
            \A auth \in Requesters :
                \A patch \in EnrollmentPatches(enrollments[e].data, now) :
                    LET data == EnrollmentProposed(e, patch)
                        byLandlord == EnrollmentLandlordCase(auth, data, enrollments[e])
                        byStudent == EnrollmentStudentCase(auth, now, data, enrollments[e])
                    IN  EnrollmentUpdateAllowed(auth, e, patch) =>
                            /\ byLandlord # byStudent
                            /\ byLandlord =>
                                   /\ IsEnrollmentLandlord(auth, e)
                                   /\ EnrollmentChanged(e, patch) \subseteq ScheduleKeys
                            /\ byStudent =>
                                   /\ IsEnrollmentStudent(auth, e)
                                   /\ EnrollmentChanged(e, patch) \subseteq CheckoutKeys
                                   /\ Get(data, "actualCheckoutDate") = Ts(now)
                            /\ IsEnrollmentLandlord(auth, e) /\ ~IsEnrollmentStudent(auth, e)
                                   => ~byStudent
                            /\ IsEnrollmentStudent(auth, e) /\ ~IsEnrollmentLandlord(auth, e)
                                   => ~byLandlord

\* The landlord has edited the schedule of an enrollment of another account,
\* and a request that also touches isActive is at hand and denied.
C11_Witness ==
    /\ last.op = "enrollments.update"
    /\ enrollments[last.id].exists
    /\ IsEnrollmentLandlord(last.auth, last.id)
    /\ ~IsEnrollmentStudent(last.auth, last.id)
    /\ Get(enrollments[last.id].data, "checkOutDate") = Ts(0)
    /\ \E patch \in EnrollmentPatches(enrollments[last.id].data, now) :
           /\ EnrollmentChanged(last.id, patch) \cap ScheduleKeys # {}
           /\ EnrollmentChanged(last.id, patch) \cap CheckoutKeys # {}
           /\ ~EnrollmentUpdateAllowed(last.auth, last.id, patch)

-----------------------------------------------------------------------------
(* Properties of the booking flow *)

\* The enrollment is active, its student is the account, and the property
\* it names exists
ActiveEnrollmentOf(student, e) ==
    /\ enrollments[e].exists
    /\ IsEnrollmentStudent(student, e)
    /\ StoredActive(e) = Bool(TRUE)
    /\ ReferencedProperty(enrollments[e]).exists

\* C12 as claimed: a call of checkOutStudentFromProperty by a student with
\* an active enrollment on an existing property returns true and leaves the
\* enrollment inactive; so no such call has just returned false, leaving
\* the enrollment as it was.
C12_CheckoutTerminates ==
    \A e \in EnrollmentIds, student \in Uids :
        last = Call("checkOutStudentFromProperty", "false", student, e)
            => ~ActiveEnrollmentOf(student, e)

\* The step is a call of enrollStudentFromBookingInterest for interest i
EnrollCallOn(i) ==
    /\ last' # last
    /\ last'.id = i
    /\ last'.op \in {"enrollStudentFromBookingInterest.ok",
                     "enrollStudentFromBookingInterest.failed"}

\* All the writes of the batch took effect in the step
EnrolledAll(i, e, p) ==
    /\ ~enrollments[e].exists /\ enrollments'[e].exists
    /\ Get(enrollments'[e].data, "isActive") = Bool(TRUE)
    /\ Get(enrollments'[e].data, "studentId") = Get(bookingInterests[i].data, "studentId")
    /\ Get(bookingInterests'[i].data, "status") = Str("accepted")
    /\ CounterOf(properties'[p].data, "enrolledStudentsCount")
           = CounterOf(properties[p].data, "enrolledStudentsCount") + 1
    /\ CounterOf(properties'[p].data, "interestedCount")
           = Max0(CounterOf(properties[p].data, "interestedCount") - 1)

\* C13: a call of enrollStudentFromBookingInterest either creates the
\* active enrollment of the interest's student, sets the interest's status
\* to accepted and adjusts the property's enrolledStudentsCount and
\* interestedCount, all in one step, or fails and leaves the enrollment,
\* interest and property documents as they were.
C13_AtomicBatch ==
    [][\A i \in InterestIds :
           EnrollCallOn(i) =>
               \/ /\ last'.op = "enrollStudentFromBookingInterest.ok"
                  /\ \E e \in EnrollmentIds, p \in PropertyIds :
                         /\ Get(bookingInterests[i].data, "propertyId") = Str(p)
                         /\ EnrolledAll(i, e, p)
               \/ /\ last'.op = "enrollStudentFromBookingInterest.failed"
                  /\ UNCHANGED <<enrollments, bookingInterests, properties, propertyImages>>]_vars

\* The batch has committed: the enrollment is there, the interest is
\* accepted and the property counts one enrolled student and no interest.
C13_Witness ==
    /\ last.op = "enrollStudentFromBookingInterest.ok"
    /\ \E e \in EnrollmentIds, p \in PropertyIds :
           /\ ActiveEnrollmentOf(Get(bookingInterests[last.id].data, "studentId")[2], e)
           /\ StoredStatus(last.id) = Str("accepted")
           /\ CounterOf(properties[p].data, "enrolledStudentsCount") = 1
           /\ CounterOf(properties[p].data, "interestedCount") = 0
           /\ Get(properties[p].data, "updatedAt") # Get(properties[p].data, "createdAt")

-----------------------------------------------------------------------------
(* Properties of getPropertyById *)

\* Both sessions have completed a call on the same property, each having
\* read the same viewCount and written its increment
BothViewed(s, t) ==
    /\ s # t
    /\ calls[s].fn = "viewed" /\ calls[t].fn = "viewed"
    /\ calls[s].id = calls[t].id
    /\ calls[s].seen = calls[t].seen
    /\ calls[s].wrote /\ calls[t].wrote

\* C14: when two calls of getPropertyById on one property have both read
\* viewCount = n and both written, the stored viewCount is n + 1, not
\* n + 2: one of the two increments is lost.
C14_LostUpdate ==
    \A s \in Sessions, t \in Sessions :
        BothViewed(s, t) =>
            CounterOf(properties[calls[s].id].data, "viewCount") = calls[s].seen + 1

\* Two calls have both read the same viewCount and both completed their
\* write, and the count has grown by one.
C14_Witness ==
    \E s \in Sessions, t \in Sessions :
        /\ BothViewed(s, t)
        /\ calls[s].auth # calls[t].auth
        /\ CounterOf(properties[calls[s].id].data, "viewCount") = calls[s].seen + 1

-----------------------------------------------------------------------------
(* Properties of /reviews *)

RatingInRange(d) ==
    /\ IsNumber(Get(d, "rating"))
    /\ Get(d, "rating")[2] >= 1
    /\ Get(d, "rating")[2] <= 5

\* C16 as claimed: after any sequence of permitted creates and updates,
\* every stored review has a numeric rating between 1 and 5.
C16_StoredRatingInRange ==
    \A r \in ReviewIds : reviews[r].exists => RatingInRange(reviews[r].data)

\* C17 as claimed: every permitted update or delete of a review is sent by
\* the student who created it.
C17_AuthorOnly ==
    [][\A r \in ReviewIds :
           (reviews[r].exists /\ reviews'[r] # reviews[r])
               => Str(last'.auth) = reviewOrigin[r]]_vars

-----------------------------------------------------------------------------
(* Properties of addReview *)

SamePair(r, q) ==
    /\ reviews[r].exists
    /\ reviews[q].exists
    /\ Get(reviews[r].data, "studentId") = Get(reviews[q].data, "studentId")
    /\ Get(reviews[r].data, "propertyId") = Get(reviews[q].data, "propertyId")

\* C18 as claimed: after any sequence of addReview calls, overlapping ones
\* included, at most one review per (studentId, propertyId) is stored.
C18_OneReviewPerPair ==
    \A r, q \in ReviewIds : SamePair(r, q) => r = q

-----------------------------------------------------------------------------
(* Properties of reads of /bookingInterests *)

\* The student named by the interest, or the landlord named by the stored
\* property the interest refers to
InterestParty(auth, i) ==
    LET d == bookingInterests[i].data
        propertyId == Get(d, "propertyId")[2]
    IN  /\ auth \in Uids
        /\ users[auth].exists
        /\ \/ /\ Get(users[auth].data, "role") = Str("student")
              /\ Get(d, "studentId") = Str(auth)
           \/ /\ Get(users[auth].data, "role") = Str("landlord")
              /\ propertyId \in PropertyIds
              /\ properties[propertyId].exists
              /\ Get(properties[propertyId].data, "landlordId") = Str(auth)

-----------------------------------------------------------------------------
(* Properties of storage.rules *)

\* C20 as claimed: an upload to profilePictures/{userId}/... is permitted
\* exactly when the requester is signed in as userId, the content type
\* matches image/* and the size is at most 2 MB, so a file of exactly
\* 2 * 1024 * 1024 bytes is accepted.
C20_AtMostTwoMB ==
    \A auth \in Requesters, userId \in DOMAIN storage, size \in FileSizes,
       contentType \in ContentTypes :
        profilePicturesAllowWrite(auth, userId, File(size, contentType))
            <=> /\ auth = userId
                /\ MatchesImage(contentType)
                /\ size <= 2 * 1024 * 1024

-----------------------------------------------------------------------------
(* Properties of writes on /users *)

\* C21: a user document is created or changed only by a request of the
\* account it is named after, every create and update request of another
\* requester is denied, and a user document once stored is stored in every
\* later state (no delete is ever permitted).
C21_SelfWriteNoDelete ==
    [][\A userId \in Uids :
           /\ users'[userId] # users[userId]
                  => /\ last'.auth = userId
                     /\ last'.id = userId
                     /\ last'.op \in {"users.create", "users.update"}
           /\ users[userId].exists => users'[userId].exists
           /\ \A auth \in Requesters \ {userId} :
                  /\ \A role \in Roles, variant \in SignupVariants(userId) :
                         ~usersAllowCreate(auth, userId,
                                           SignupPayload(userId, role, variant))
                  /\ users[userId].exists =>
                         \A patch \in UserPatches(userId) :
                             ~usersAllowUpdate(auth, userId,
                                               Merge(users[userId].data, patch),
                                               users[userId])]_vars

\* Both accounts have stored their documents, the last write being an
\* update by an account of its own document.
C21_Witness ==
    /\ \A userId \in Uids : users[userId].exists
    /\ last.op = "users.update"
    /\ last.auth = last.id
    /\ users[last.id].data # BaseUser(last.id, Get(users[last.id].data, "role")[2])

-----------------------------------------------------------------------------
(* Properties of reads of /properties *)

\* C22: in every state a read of a property document is allowed for every
\* requester, the unauthenticated one included.
C22_PublicRead ==
    \A auth \in Requesters, propertyId \in PropertyIds :
        ENABLED PropertiesGetRequest(auth, propertyId)

\* An unauthenticated requester has just read a stored property.
C22_Witness ==
    /\ last.op = "properties.get"
    /\ last.auth = Anon
    /\ properties[last.id].exists

-----------------------------------------------------------------------------
(* Properties of enrolledStudentsCount *)

\* The stored enrollments of a property with isActive = true
ActiveEnrollments(propertyId) ==
    {e \in EnrollmentIds :
         /\ enrollments[e].exists
         /\ Get(enrollments[e].data, "propertyId") = Str(propertyId)
         /\ Get(enrollments[e].data, "isActive") = Bool(TRUE)}

\* C23 as claimed: after any sequence of completed calls of the four
\* enrollment operations, a stored property's enrolledStudentsCount is the
\* number of its active enrollments, and is not negative.
C23_CountIsActiveEnrollments ==
    \A p \in PropertyIds :
        properties[p].exists =>
            /\ CounterOf(properties[p].data, "enrolledStudentsCount")
                   = Cardinality(ActiveEnrollments(p))
            /\ CounterOf(properties[p].data, "enrolledStudentsCount") >= 0

\* C24 as claimed: a finished call of getPropertyById on a stored property
\* returns the property, whoever the caller is.
C24_ReturnsStoredProperty ==
    \A s \in Sessions :
        (calls[s].fn = "viewed" /\ properties[calls[s].id].exists)
            => GetPropertyByIdResult(calls[s]) = "property"

-----------------------------------------------------------------------------
(* Properties of signup *)

\* The auth context of the session holds the profile of the account
HoldsProfile(s) ==
    /\ calls[s].fn = "AuthProvider"
    /\ calls[s].user # Undef
    /\ Get(calls[s].user, "role") = Str(calls[s].role)
    /\ ~calls[s].isLoading

SignupReturnedTrue(s) == calls[s].fn = "AuthProvider" /\ calls[s].signup = "true"

\* C25 as claimed: after signup has returned true, the auth context
\* eventually holds the new account's profile with isLoading false,
\* whatever the interleaving of the listener with signup.
C25_ProfileEventuallyHeld ==
    \A s \in Sessions : SignupReturnedTrue(s) ~> HoldsProfile(s)

-----------------------------------------------------------------------------
(* Properties of the status of a booking interest *)

LeftPending(resource) ==
    resource.exists /\ Get(resource.data, "status") # Str("pending")

\* C26: once the status of a booking interest is no longer 'pending', no
\* step returns it to 'pending', and every request that would, whoever
\* sends it, is denied.
C26_NeverBackToPending ==
    [][\A i \in InterestIds :
           LeftPending(bookingInterests[i]) =>
               /\ LeftPending(bookingInterests'[i])
               /\ \A auth \in Requesters,
                     patch \in InterestPatches(bookingInterests[i].data, now) :
                      Get(Merge(bookingInterests[i].data, patch), "status")
                              = Str("pending")
                          => ~bookingInterestsAllowUpdate(auth, now,
                                 Merge(bookingInterests[i].data, patch),
                                 bookingInterests[i])]_vars

\* The owning landlord has set an interest submitted at time 0 to 'rejected'
\* at the latest time of the clock.
C26_Witness ==
    /\ last.op = "bookingInterests.update"
    /\ bookingInterests[last.id].exists
    /\ Get(bookingInterests[last.id].data, "status") = Str("rejected")
    /\ Get(bookingInterests[last.id].data, "updatedAt") = Ts(MaxTime)
    /\ Get(bookingInterests[last.id].data, "submittedAt") = Ts(0)
    /\ last.auth # Get(bookingInterests[last.id].data, "studentId")[2]

-----------------------------------------------------------------------------
(* Properties of repeated enrollStudentFromBookingInterest *)

\* The stored enrollments carrying the student and the property of the
\* interest
EnrollmentsFromInterest(i) ==
    {e \in EnrollmentIds :
         /\ enrollments[e].exists
         /\ Get(enrollments[e].data, "studentId")
                = Get(bookingInterests[i].data, "studentId")
         /\ Get(enrollments[e].data, "propertyId")
                = Get(bookingInterests[i].data, "propertyId")}

\* C27 as claimed: whatever calls of enrollStudentFromBookingInterest are
\* made for a booking interest, at most one enrollment created from it is
\* stored and the property's enrolledStudentsCount, 0 before the first
\* call, is at most 1.
C27_EnrolledOncePerInterest ==
    \A i \in InterestIds :
        bookingInterests[i].exists =>
            /\ Cardinality(EnrollmentsFromInterest(i)) <= 1
            /\ ReferencedProperty(bookingInterests[i]).exists =>
                   CounterOf(ReferencedProperty(bookingInterests[i]).data,
                             "enrolledStudentsCount") <= 1

-----------------------------------------------------------------------------
(* Properties of the creation of /enrollments/{enrollmentId} *)

\* Landlords, properties and the create requests of enrollments
NextEnrollmentCreates ==
    \/ UsersCreateBasic
    \/ PropertiesCreateBasic
    \/ PropertiesDelete
    \/ EnrollmentsCreate
    \/ Tick

SpecEnrollmentCreates == Init /\ [][NextEnrollmentCreates]_vars

\* C28 as claimed: every enrollment document that becomes stored names, by
\* its propertyId, a stored property whose landlordId equals the landlordId
\* of the enrollment: no landlord creates an enrollment for a property they
\* do not own.
C28_CreatedForOwnProperty ==
    [][\A e \in EnrollmentIds :
           (~enrollments[e].exists /\ enrollments'[e].exists) =>
               /\ ReferencedProperty(enrollments'[e]).exists
               /\ Eq(Get(ReferencedProperty(enrollments'[e]).data, "landlordId"),
                     Get(enrollments'[e].data, "landlordId"))]_vars

-----------------------------------------------------------------------------
(* Properties of uploadFileToStorage *)

\* C29 as claimed: of the images one call of addProperty has uploaded with
\* the same path argument, each is stored as its own object at
\* `${path}/${uuid}.${extension}`: two uploads have distinct objects, and
\* the object of each still holds the bytes of its file.
C29_EachUploadOwnObject ==
    \A s \in AddPropertySessions :
        calls[s].fn = "addProperty" =>
            \A u \in calls[s].uploaded :
                LET f == ImageInputs[u.image]
                    objectPath == StorageRefFullPath(
                        PropertyImagesPath(calls[s].landlord, calls[s].tempPropertyId),
                        uuidv4(calls[s].call, f.name), f.name)
                IN  /\ u.url = DownloadURL(objectPath)
                    /\ objectPath \in DOMAIN propertyImages
                    /\ propertyImages[objectPath].bytes = f.name
                    /\ \A v \in calls[s].uploaded : v.image # u.image => v.url # u.url

\* The images uploaded by one call all stored, each with its own bytes,
\* whatever the paths of the objects
C29_NoUploadOverwritten ==
    \A s \in AddPropertySessions :
        calls[s].fn = "addProperty" =>
            \A u \in calls[s].uploaded :
                \E objectPath \in DOMAIN propertyImages :
                    /\ u.url = DownloadURL(objectPath)
                    /\ propertyImages[objectPath].bytes = ImageInputs[u.image].name

-----------------------------------------------------------------------------
(* The profile-picture inputs of the signup page, the profile page and the
   landlord dashboard: the client checks of the file, then the upload to
   profilePictures/{userId} and the write of the user document *)

MAX_FILE_SIZE_BYTES == 5 * 1024 * 1024

ACCEPTED_IMAGE_TYPES == {"image/jpeg", "image/png", "image/webp", "image/gif"}

\* signup page: validateFile for a file that is present
validateFile(f) ==
    /\ ~(f.size > MAX_FILE_SIZE_BYTES)
    /\ f.type \in ACCEPTED_IMAGE_TYPES

\* profile page: the two refinements of optionalFileValidation for a file
\* that is present
optionalFileValidation(f) ==
    /\ f.size <= MAX_FILE_SIZE_BYTES
    /\ f.type \in ACCEPTED_IMAGE_TYPES

\* landlord dashboard: the checks of handleUpdateAvatar
handleUpdateAvatarChecks(f) ==
    /\ ~(f.size > MAX_FILE_SIZE_BYTES)
    /\ f.type \in ACCEPTED_IMAGE_TYPES

PictureForms == {"signup", "profile", "dashboard"}

ClientChecks(form, f) ==
    CASE form = "signup" -> validateFile(f)
      [] form = "profile" -> optionalFileValidation(f)
      [] form = "dashboard" -> handleUpdateAvatarChecks(f)

\* The files chosen in the forms: sizes around the limit of the rule and
\* around the limit of the client
PictureFiles ==
    [size : {MaxProfilePictureSize - 1, MaxProfilePictureSize,
             MAX_FILE_SIZE_BYTES, MAX_FILE_SIZE_BYTES + 1},
     type : {"image/png", "image/gif", "application/pdf"}]

\* The session the forms are filled in
PictureSessions == {"s1"}

\* A form is submitted with a profile picture: the client checks, then
\* uploadFileToStorage(file, `profilePictures/${userId}`) by the owner
SubmitProfilePicture ==
    \E s \in PictureSessions, uid \in Uids, form \in PictureForms, f \in PictureFiles :
        /\ calls[s].fn = "idle"
        /\ IF form = "signup" THEN NewAccount(uid) ELSE users[uid].exists
        /\ LET resource == File(f.size, f.type)
               checked == ClientChecks(form, f)
               ok == checked /\ profilePicturesAllowWrite(uid, uid, resource)
           IN  /\ storage' = IF ok THEN [storage EXCEPT ![uid] = resource] ELSE storage
               /\ calls' = [calls EXCEPT ![s] =
                      [fn |-> "pictureForm", form |-> form, uid |-> uid, file |-> f,
                       upload |-> IF ~checked THEN "invalid"
                                  ELSE IF ok THEN "stored" ELSE "rejected"]]
               /\ last' = IF ok THEN Write("profilePictures.write", uid, uid) ELSE last
        /\ UNCHANGED <<users, properties, bookingInterests, enrollments, now,
                       userOrigin, propertyOrigin, reviews, reviewOrigin,
                       propertyImages>>

\* After a stored picture: setDoc of the new profile (signup) or updateDoc
\* of profilePictureUrl (profile page, dashboard); otherwise the form shows
\* its error
FinishProfilePicture ==
    \E s \in PictureSessions, role \in Roles :
        /\ calls[s].fn = "pictureForm"
        /\ LET c == calls[s]
               resource == users[c.uid]
               data == IF c.form = "signup"
                       THEN CleanProfileData(c.uid, role, {"profilePictureUrl"})
                       ELSE Merge(resource.data,
                                updateUserProfile(
                                    mapFirestoreDocToUser(c.uid, resource.data),
                                    EmptyDoc, {"profilePictureFile"}))
               ok == /\ c.upload = "stored"
                     /\ IF c.form = "signup"
                        THEN ~resource.exists /\ usersAllowCreate(c.uid, c.uid, data)
                        ELSE usersAllowUpdate(c.uid, c.uid, data, resource)
           IN  /\ users' = IF ok THEN [users EXCEPT ![c.uid] = Stored(data)] ELSE users
               /\ userOrigin' = IF ok /\ c.form = "signup"
                                THEN [userOrigin EXCEPT ![c.uid] = Origin(data)]
                                ELSE userOrigin
               /\ last' = IF ok
                          THEN Write(IF c.form = "signup" THEN "users.create"
                                     ELSE "users.update", c.uid, c.uid)
                          ELSE last
        /\ calls' = [calls EXCEPT ![s] = Idle]
        /\ UNCHANGED <<properties, bookingInterests, enrollments, now,
                       propertyOrigin, reviews, reviewOrigin, storage, propertyImages>>

NextPictureForms ==
    \/ UsersCreateBasic
    \/ SubmitProfilePicture
    \/ FinishProfilePicture

SpecPictureForms == Init /\ [][NextPictureForms]_vars

\* C30 as claimed: every profile picture that passes the client checks of
\* its form (signup page, profile page or landlord dashboard) is accepted by
\* the profilePictures write rule when its owner uploads it.
C30_ClientChecksImplyRule ==
    \A s \in PictureSessions :
        (calls[s].fn = "pictureForm" /\ calls[s].upload # "invalid") =>
            calls[s].upload = "stored"

====
